---- MODULE Spec2Model ----
(***************************************************************************)
(* A model of github.com/rapidfort/table (table.go): box-drawn tables with *)
(* escape-sequence-aware measurement and wrapping, a column width          *)
(* allocator, the border/row/description layout of Render, and table       *)
(* groups.                                                                 *)
(*                                                                         *)
(* A Go string is a sequence of bytes.  Every byte is one token (a TLA+    *)
(* string); a box-drawing glyph is one token, because the code never cuts  *)
(* inside one.  The two bytes of a two-byte rune are the tokens LeadByte   *)
(* and ContByte, so that byte slicing and rune counting differ as in Go.   *)
(***************************************************************************)
EXTENDS Integers, Sequences, FiniteSets, TLC

\* ------------------------------------------------------------------ bytes

ESC == "^["
LeadByte == "<C3>"
ContByte == "<A9>"

Digits == {"0", "1", "2", "3", "4", "5", "6", "7", "8", "9"}
Letters ==
  {"a", "b", "c", "d", "e", "f", "g", "h", "i", "j", "k", "l", "m",
   "n", "o", "p", "q", "r", "s", "t", "u", "v", "w", "x", "y", "z",
   "A", "B", "C", "D", "E", "F", "G", "H", "I", "J", "K", "L", "M",
   "N", "O", "P", "Q", "R", "S", "T", "U", "V", "W", "X", "Y", "Z"}
\* the class [0-9;] of ansiRegexp
CSIParams == Digits \cup {";"}
\* unicode.IsSpace on the bytes the model uses
Spaces == {" ", "\t", "\n", "\r"}

DimStyleStart ==
  <<ESC, "[", "2", "m", ESC, "[", "3", "8", ";", "5", ";", "2", "4", "0", "m">>
DimStyleEnd == <<ESC, "[", "0", "m">>
BoldStyleStart == <<ESC, "[", "1", "m">>
BoldStyleEnd == <<ESC, "[", "0", "m">>

TopLeft == "TopLeft"
TopRight == "TopRight"
BottomLeft == "BottomLeft"
BottomRight == "BottomRight"
HLine == "HLine"
VLine == "VLine"
LeftT == "LeftT"
RightT == "RightT"
TopT == "TopT"
BottomT == "BottomT"
Cross == "Cross"

maxColumnWidth == 50
minTerminalWidth == 80

\* ----------------------------------------------------------- Go strings

Max(a, b) == IF a >= b THEN a ELSE b
Min(a, b) == IF a <= b THEN a ELSE b

\* s[i:] and s[:n] and s[i:j] of Go, on 0-based byte offsets
From(s, i) == SubSeq(s, i + 1, Len(s))
Upto(s, n) == SubSeq(s, 1, n)
Slice(s, i, j) == SubSeq(s, i + 1, j)

\* strings.Repeat for a count >= 0 (a negative count panics: see the callers)
Repeat(c, n) == [i \in 1..n |-> c]

RECURSIVE Concat(_)
Concat(ss) == IF ss = <<>> THEN <<>> ELSE Head(ss) \o Concat(Tail(ss))

\* utf8.RuneCountInString: a lead byte with its continuation byte is one
\* rune; every other byte (a lone lead or continuation byte included) is one.
RuneCountInString(s) ==
  Len(s) - Cardinality({i \in 1..(Len(s) - 1) : s[i] = LeadByte /\ s[i + 1] = ContByte})

\* ansiRegexp = \x1b\[[0-9;]*[a-zA-Z] tried at the 1-based position i: the
\* position of the closing letter, or 0 when there is no match at i.
RECURSIVE SkipParams(_, _)
SkipParams(s, j) ==
  IF j <= Len(s) /\ s[j] \in CSIParams THEN SkipParams(s, j + 1) ELSE j

ansiMatchEnd(s, i) ==
  LET closing(j) == IF j <= Len(s) /\ s[j] \in Letters THEN j ELSE 0
  IN IF i + 1 <= Len(s) /\ s[i] = ESC /\ s[i + 1] = "["
     THEN closing(SkipParams(s, i + 2))
     ELSE 0

\* ReplaceAllString(s, ""): the bytes of s outside every match.  Two matches
\* never overlap, since a match holds one ESC, its first byte.
stripANSI(s) ==
  LET starts == {i \in 1..Len(s) : ansiMatchEnd(s, i) > 0}
      kept(p) == \A m \in starts : p[1] < m \/ p[1] > ansiMatchEnd(s, m)
      bytes(left) == [k \in 1..Len(left) |-> left[k][2]]
  IN bytes(SelectSeq([i \in 1..Len(s) |-> <<i, s[i]>>], kept))

\* the 1-based start of the last match of ansiRegexp in s, or 0
RECURSIVE LastMatchStart(_, _)
LastMatchStart(s, i) ==
  IF i < 1 THEN 0
  ELSE IF ansiMatchEnd(s, i) > 0 THEN i ELSE LastMatchStart(s, i - 1)

\* step 1 of extractWrappingANSI: the byte offset where the leading run ends
RECURSIVE PeelPrefix(_, _)
PeelPrefix(s, coreStart) ==
  LET next(e) == IF e = 0 THEN coreStart
                 ELSE IF e >= Len(s) THEN e
                 ELSE PeelPrefix(s, e)
  IN next(ansiMatchEnd(s, coreStart + 1))

\* step 2: the byte offset where the trailing run starts
RECURSIVE PeelSuffix(_, _, _)
PeelSuffix(s, coreStart, coreEnd) ==
  LET next(cut, last) ==
        IF last = 0 THEN coreEnd
        ELSE IF ansiMatchEnd(cut, last) = coreEnd
             THEN IF last - 1 <= coreStart THEN last - 1
                  ELSE PeelSuffix(s, coreStart, last - 1)
             ELSE coreEnd
  IN next(Upto(s, coreEnd), LastMatchStart(Upto(s, coreEnd), coreEnd))

extractWrappingANSI(s) ==
  LET cut(coreStart, coreEnd) ==
        [prefix |-> Upto(s, coreStart),
         suffix |-> From(s, coreEnd),
         core |-> Slice(s, coreStart, coreEnd)]
      peel(coreStart) ==
        IF coreStart >= Len(s) /\ coreStart > 0
        THEN [prefix |-> Upto(s, coreStart), suffix |-> <<>>, core |-> <<>>]
        ELSE cut(coreStart, PeelSuffix(s, coreStart, Len(s)))
  IN peel(PeelPrefix(s, 0))

\* strings.Contains for a one-byte needle
Contains(s, c) == \E i \in 1..Len(s) : s[i] = c

\* strings.Split on a one-byte separator: the parts between the separators
Split(s, sep) ==
  LET at == {i \in 1..Len(s) : s[i] = sep}
      nth(k) == IF k = 0 THEN 0
                ELSE IF k > Cardinality(at) THEN Len(s) + 1
                ELSE CHOOSE p \in at : Cardinality({q \in at : q < p}) = k - 1
  IN [k \in 1..(Cardinality(at) + 1) |-> SubSeq(s, nth(k - 1) + 1, nth(k) - 1)]

RECURSIVE TrimLeft(_)
TrimLeft(s) ==
  IF s # <<>> /\ Head(s) \in Spaces THEN TrimLeft(Tail(s)) ELSE s

RECURSIVE TrimRight(_)
TrimRight(s) ==
  IF s # <<>> /\ s[Len(s)] \in Spaces THEN TrimRight(Upto(s, Len(s) - 1)) ELSE s

TrimSpace(s) == TrimRight(TrimLeft(s))

\* strings.Fields
RECURSIVE FieldsFrom(_, _, _)
FieldsFrom(s, i, cur) ==
  IF i > Len(s) THEN (IF cur = <<>> THEN <<>> ELSE <<cur>>)
  ELSE IF s[i] \in Spaces
       THEN (IF cur = <<>> THEN <<>> ELSE <<cur>>) \o FieldsFrom(s, i + 1, <<>>)
       ELSE FieldsFrom(s, i + 1, Append(cur, s[i]))

Fields(s) == FieldsFrom(s, 1, <<>>)

HasPrefix(s, p) == Len(s) >= Len(p) /\ Upto(s, Len(p)) = p
TrimPrefix(s, p) == IF HasPrefix(s, p) THEN From(s, Len(p)) ELSE s

\* ------------------------------------------------------------ the wrappers
\* A wrapper returns [st, lines]: st is "ok", or "panic" when the Go code
\* slices with a negative bound, or "diverge" when its loop never ends.

Ok(lines) == [st |-> "ok", lines |-> lines]
Panic == [st |-> "panic", lines |-> <<>>]
Diverge == [st |-> "diverge", lines |-> <<>>]

\* the inner loop of splitByWords, for maxWidth >= 1: cuts maxWidth BYTES
\* off line while line has more than maxWidth runes
RECURSIVE chopLine(_, _)
chopLine(line, maxWidth) ==
  LET cons(r) == [res |-> <<Upto(line, maxWidth)>> \o r.res, line |-> r.line]
  IN IF RuneCountInString(line) > maxWidth
     THEN cons(chopLine(From(line, maxWidth), maxWidth))
     ELSE [res |-> <<>>, line |-> line]

RECURSIVE wordsLoop(_, _, _, _)
wordsLoop(words, maxWidth, res, line) ==
  LET chopped(res1, c) == wordsLoop(Tail(words), maxWidth, res1 \o c.res, c.line)
      step(res1, line1) ==
        IF RuneCountInString(line1) > maxWidth
        THEN IF maxWidth < 0 THEN Panic
             ELSE IF maxWidth = 0 THEN Diverge
             ELSE chopped(res1, chopLine(line1, maxWidth))
        ELSE wordsLoop(Tail(words), maxWidth, res1, line1)
      try(w, test) ==
        IF RuneCountInString(test) <= maxWidth THEN step(res, test)
        ELSE step(IF line # <<>> THEN Append(res, line) ELSE res, w)
  IN IF words = <<>>
     THEN Ok(IF line # <<>> THEN Append(res, line) ELSE res)
     ELSE try(Head(words),
              IF line # <<>> THEN line \o <<" ">> \o Head(words) ELSE Head(words))

splitByWords(content, maxWidth) == wordsLoop(Fields(content), maxWidth, <<>>, <<>>)

RECURSIVE commaLoop(_, _, _, _, _)
commaLoop(parts, i, maxWidth, res, line) ==
  LET step(part) ==
        IF line # <<>> /\ RuneCountInString(line \o part) > maxWidth
        THEN commaLoop(parts, i + 1, maxWidth, Append(res, line),
                       TrimPrefix(part, <<",", " ">>))
        ELSE commaLoop(parts, i + 1, maxWidth, res, line \o part)
  IN IF i > Len(parts)
     THEN IF line # <<>> THEN Append(res, line) ELSE res
     ELSE step((IF i > 1 THEN <<",", " ">> ELSE <<>>) \o TrimSpace(parts[i]))

splitCommaSeparatedList(content, maxWidth) ==
  Ok(commaLoop(Split(content, ","), 1, maxWidth, <<>>, <<>>))

RECURSIVE pathLoop(_, _, _, _, _)
pathLoop(parts, i, maxWidth, res, line) ==
  LET chunked(res1, chunks) ==
        IF chunks.st # "ok" THEN chunks
        ELSE pathLoop(parts, i + 1, maxWidth, res1 \o chunks.lines, <<>>)
      step(res1, line1) ==
        IF RuneCountInString(line1) > maxWidth
        THEN chunked(res1, splitByWords(line1, maxWidth))
        ELSE pathLoop(parts, i + 1, maxWidth, res1, line1)
      try(part) ==
        IF line # <<>> /\ RuneCountInString(line \o part) > maxWidth
        THEN step(Append(res, line), part)
        ELSE step(res, line \o part)
  IN IF i > Len(parts)
     THEN Ok(IF line # <<>> THEN Append(res, line) ELSE res)
     ELSE try((IF i > 1 THEN <<"/">> ELSE <<>>) \o parts[i])

splitLongString(content, maxWidth) ==
  pathLoop(Split(content, "/"), 1, maxWidth, <<>>, <<>>)

\* smartSplitCellContent with maxW = t.columnWidths[colIndex]
smartSplitCellContent(content, maxW) ==
  LET attach(x, parts) ==
        IF parts.st # "ok" THEN parts
        ELSE Ok([i \in 1..Len(parts.lines) |-> x.prefix \o parts.lines[i] \o x.suffix])
      wrap(x) ==
        IF RuneCountInString(stripANSI(x.core)) <= maxW
        THEN Ok(<<x.prefix \o x.core \o x.suffix>>)
        ELSE attach(x,
               IF Contains(x.core, ",") THEN splitCommaSeparatedList(x.core, maxW)
               ELSE IF Contains(x.core, "/") \/ Contains(x.core, ".")
                    THEN splitLongString(x.core, maxW)
               ELSE splitByWords(x.core, maxW))
  IN wrap(extractWrappingANSI(content))

\* the chunk loop of smartSplitByWords, for maxWidth >= 1
RECURSIVE chunkLoop(_, _)
chunkLoop(remaining, maxWidth) ==
  IF RuneCountInString(remaining) > 0
  THEN IF RuneCountInString(remaining) <= maxWidth THEN <<remaining>>
       ELSE <<Upto(remaining, maxWidth)>> \o chunkLoop(From(remaining, maxWidth), maxWidth)
  ELSE <<>>

RECURSIVE smartWordsLoop(_, _, _, _, _, _, _)
smartWordsLoop(words, maxWidth, prefix, suffix, result, currentLine, currentLineVisible) ==
  LET chunked(w, result1, chunks) ==
        smartWordsLoop(Tail(words), maxWidth, prefix, suffix,
          result1 \o [i \in 1..Len(chunks) |->
                        IF i = 1
                        THEN prefix \o w.prefix \o chunks[i] \o w.suffix \o suffix
                        ELSE prefix \o chunks[i] \o suffix],
          <<>>, <<>>)
      newLine(w, result1) ==
        IF RuneCountInString(w.core) > maxWidth
        THEN IF w.core = <<>>
             THEN smartWordsLoop(Tail(words), maxWidth, prefix, suffix, result1, <<>>, <<>>)
             ELSE IF maxWidth < 0 THEN Panic
             ELSE IF maxWidth = 0 THEN Diverge
             ELSE chunked(w, result1, chunkLoop(w.core, maxWidth))
        ELSE smartWordsLoop(Tail(words), maxWidth, prefix, suffix, result1,
                            w.prefix \o w.core \o w.suffix, w.core)
      try(w, testLineVisible) ==
        IF RuneCountInString(testLineVisible) <= maxWidth
        THEN smartWordsLoop(Tail(words), maxWidth, prefix, suffix, result,
               (IF currentLine # <<>> THEN currentLine \o <<" ">> ELSE <<>>)
                 \o w.prefix \o w.core \o w.suffix,
               testLineVisible)
        ELSE newLine(w, IF currentLine # <<>>
                        THEN Append(result, prefix \o currentLine \o suffix)
                        ELSE result)
      word(w) ==
        try(w, (IF currentLineVisible # <<>> THEN currentLineVisible \o <<" ">>
                ELSE <<>>) \o w.core)
  IN IF words = <<>>
     THEN Ok(IF currentLine # <<>>
             THEN Append(result, prefix \o currentLine \o suffix) ELSE result)
     ELSE word(extractWrappingANSI(Head(words)))

smartSplitByWords(text, maxWidth) ==
  LET loop(x, words) ==
        IF Len(words) = 0 THEN Ok(<<text>>)
        ELSE smartWordsLoop(words, maxWidth, x.prefix, x.suffix, <<>>, <<>>, <<>>)
      split(x) == loop(x, Fields(x.core))
  IN IF RuneCountInString(stripANSI(text)) <= maxWidth THEN Ok(<<text>>)
     ELSE split(extractWrappingANSI(text))

\* ------------------------------------------------------------- the table
\* A Table is a record.  Column and row indices are 0-based as in Go: column
\* i of a slice is element i + 1 of the sequence that models it.  A Go map
\* is a function whose DOMAIN is the set of its keys.  group is 0 for nil.

EmptyMap == [k \in {} |-> 0]

MapPut(m, k, v) == [x \in DOMAIN m \cup {k} |-> IF x = k THEN v ELSE m[x]]

\* NewTable, with the two answers of the environment: the detected terminal
\* width and whether stdout is a terminal
NewTable(headers, termWidth, isTerminal) ==
  [Headers |-> headers,
   Rows |-> <<>>,
   Descriptions |-> EmptyMap,
   DescriptionTitles |-> EmptyMap,
   columnWidths |-> [i \in 1..Len(headers) |-> 0],
   alignments |-> [i \in 1..Len(headers) |-> "left"],
   consoleWidth |-> termWidth,
   fillWidth |-> FALSE,
   maxWidths |-> EmptyMap,
   dimBorder |-> isTerminal,
   supportANSI |-> isTerminal,
   borderless |-> FALSE,
   highlightHeaders |-> isTerminal,
   highlightedHeaders |-> <<>>,
   rowCountEnabled |-> FALSE,
   group |-> 0]

EnableRowCount(t, enabled) == [t EXCEPT !.rowCountEnabled = enabled]
SetBorderless(t, on) == [t EXCEPT !.borderless = on]
SetDimBorder(t, enabled) == [t EXCEPT !.dimBorder = enabled]
SetHeaderHighlighting(t, enabled) == [t EXCEPT !.highlightHeaders = enabled]
SetHighlightedHeaders(t, indices) == [t EXCEPT !.highlightedHeaders = indices]

AddHighlightedHeader(t, index) ==
  IF index >= 0 /\ index < Len(t.Headers)
  THEN [t EXCEPT !.highlightedHeaders = Append(@, index)]
  ELSE t

\* ClearHighlightedHeaders that leaves the list as it is
ClearHighlightedHeaders_keepsList(t) == t

ClearHighlightedHeaders(t) == [t EXCEPT !.highlightedHeaders = <<>>]

isHighlightedHeader(t, index) ==
  \/ t.highlightHeaders
  \/ \E k \in 1..Len(t.highlightedHeaders) : t.highlightedHeaders[k] = index

SetFillWidth(t, enabled) == [t EXCEPT !.fillWidth = enabled]
SetConsoleWidth(t, width) == [t EXCEPT !.consoleWidth = width]

SetAlignment(t, columnIndex, alignment) ==
  IF columnIndex >= 0 /\ columnIndex < Len(t.alignments)
  THEN [t EXCEPT !.alignments[columnIndex + 1] = alignment]
  ELSE t

SetMaxWidth(t, columnIndex, maxWidth) ==
  IF columnIndex >= 0 /\ columnIndex < Len(t.Headers)
  THEN [t EXCEPT !.maxWidths = MapPut(@, columnIndex, maxWidth)]
  ELSE t

\* AddRow that stores the row as given, without padding it
AddRow_noPadding(t, row) == [t EXCEPT !.Rows = Append(@, row)]

AddRow(t, row) ==
  LET padded == row \o [i \in 1..(Len(t.Headers) - Len(row)) |-> <<>>]
  IN [t EXCEPT !.Rows = Append(@, padded)]

\* AddDescriptionWithTitle that accepts the row index one past the last row
AddDescriptionWithTitle_offByOne(t, rowIndex, title, description) ==
  IF rowIndex >= 0 /\ rowIndex <= Len(t.Rows)
  THEN LET descs == IF rowIndex \in DOMAIN t.Descriptions
                    THEN t.Descriptions[rowIndex] ELSE <<>>
           titles == IF rowIndex \in DOMAIN t.Descriptions
                     THEN t.DescriptionTitles[rowIndex] ELSE <<>>
       IN [t EXCEPT
             !.Descriptions = MapPut(@, rowIndex, Append(descs, description)),
             !.DescriptionTitles = MapPut(@, rowIndex, Append(titles, title))]
  ELSE t

AddDescriptionWithTitle(t, rowIndex, title, description) ==
  IF rowIndex >= 0 /\ rowIndex < Len(t.Rows)
  THEN LET descs == IF rowIndex \in DOMAIN t.Descriptions
                    THEN t.Descriptions[rowIndex] ELSE <<>>
           titles == IF rowIndex \in DOMAIN t.Descriptions
                     THEN t.DescriptionTitles[rowIndex] ELSE <<>>
       IN [t EXCEPT
             !.Descriptions = MapPut(@, rowIndex, Append(descs, description)),
             !.DescriptionTitles = MapPut(@, rowIndex, Append(titles, title))]
  ELSE t

AddDescription(t, rowIndex, description) ==
  AddDescriptionWithTitle(t, rowIndex, <<>>, description)

\* ------------------------------------------------------- width allocator

RECURSIVE SeqMax(_)
SeqMax(ws) == IF ws = <<>> THEN 0 ELSE Max(Head(ws), SeqMax(Tail(ws)))

\* 1 + sum(w + 2 + 1)
RECURSIVE SumPlus3(_)
SumPlus3(ws) == IF ws = <<>> THEN 0 ELSE Head(ws) + 3 + SumPlus3(Tail(ws))

TotalWidth(ws) == 1 + SumPlus3(ws)

\* calculateInitialColumnWidths that measures the cells as stored, escape
\* sequences included
calculateInitialColumnWidths_rawLength(t) ==
  LET need(i) ==
        Max(RuneCountInString(t.Headers[i]),
            SeqMax([r \in 1..Len(t.Rows) |->
                      IF i <= Len(t.Rows[r])
                      THEN RuneCountInString(t.Rows[r][i]) ELSE 0]))
      perColumn(i, g) ==
        IF (i - 1) \in DOMAIN t.maxWidths /\ g > t.maxWidths[i - 1]
        THEN t.maxWidths[i - 1] ELSE g
      capped(i) == perColumn(i, Min(need(i), maxColumnWidth))
  IN [t EXCEPT !.columnWidths = [i \in 1..Len(t.Headers) |-> capped(i)]]

calculateInitialColumnWidths(t) ==
  LET need(i) ==
        Max(RuneCountInString(stripANSI(t.Headers[i])),
            SeqMax([r \in 1..Len(t.Rows) |->
                      IF i <= Len(t.Rows[r])
                      THEN RuneCountInString(stripANSI(t.Rows[r][i])) ELSE 0]))
      perColumn(i, g) ==
        IF (i - 1) \in DOMAIN t.maxWidths /\ g > t.maxWidths[i - 1]
        THEN t.maxWidths[i - 1] ELSE g
      capped(i) == perColumn(i, Min(need(i), maxColumnWidth))
  IN [t EXCEPT !.columnWidths = [i \in 1..Len(t.Headers) |-> capped(i)]]

\* widestShrinkable that takes a column for shrinkable when it is wider than 2
widestShrinkable_above2(ws) ==
  IF \A i \in 1..Len(ws) : ws[i] <= 2 THEN 0
  ELSE CHOOSE i \in 1..Len(ws) :
         /\ ws[i] > 2
         /\ \A j \in 1..Len(ws) : ws[j] <= ws[i]
         /\ \A j \in 1..(i - 1) : ws[j] < ws[i]

\* the index (1-based) of the first widest column among those wider than 3,
\* or 0: the selection loop shared by both shrink passes
widestShrinkable(ws) ==
  IF \A i \in 1..Len(ws) : ws[i] <= 3 THEN 0
  ELSE CHOOSE i \in 1..Len(ws) :
         /\ ws[i] > 3
         /\ \A j \in 1..Len(ws) : ws[j] <= ws[i]
         /\ \A j \in 1..(i - 1) : ws[j] < ws[i]

RECURSIVE shrinkOneByOne(_, _)
shrinkOneByOne(ws, excess) ==
  LET dec(idx) == IF idx = 0 THEN ws
                  ELSE shrinkOneByOne([ws EXCEPT ![idx] = @ - 1], excess - 1)
  IN IF excess <= 0 THEN ws ELSE dec(widestShrinkable(ws))

adjustColumnWidthsToFit(t) ==
  LET fit(total) ==
        IF total > t.consoleWidth
        THEN [t EXCEPT !.columnWidths = shrinkOneByOne(@, total - t.consoleWidth)]
        ELSE t
  IN fit(TotalWidth(t.columnWidths))

\* the loop of shrinkColumnsToFit without the clamp of reduceBy to width - 3
RECURSIVE shrinkLoop_noClamp(_, _)
shrinkLoop_noClamp(ws, excessWidth) ==
  LET reduce(idx, reduceBy) ==
        shrinkLoop_noClamp([ws EXCEPT ![idx] = @ - reduceBy], excessWidth - reduceBy)
      pick(idx) ==
        IF idx = 0 THEN ws
        ELSE reduce(idx, IF excessWidth > 5 /\ ws[idx] > 10
                         THEN excessWidth \div 5
                         ELSE 1)
  IN IF excessWidth <= 0 THEN ws ELSE pick(widestShrinkable(ws))

RECURSIVE shrinkLoop(_, _)
shrinkLoop(ws, excessWidth) ==
  LET reduce(idx, reduceBy) ==
        shrinkLoop([ws EXCEPT ![idx] = @ - reduceBy], excessWidth - reduceBy)
      pick(idx) ==
        IF idx = 0 THEN ws
        ELSE reduce(idx, IF excessWidth > 5 /\ ws[idx] > 10
                         THEN Min(excessWidth \div 5, ws[idx] - 3)
                         ELSE 1)
  IN IF excessWidth <= 0 THEN ws ELSE pick(widestShrinkable(ws))

\* shrinkColumnsToFit that gives up after one round of its loop
shrinkColumnsToFit_oneRound(t, excessWidth) ==
  [t EXCEPT !.columnWidths = shrinkLoop(@, Min(excessWidth, 1))]

shrinkColumnsToFit(t, excessWidth) ==
  [t EXCEPT !.columnWidths = shrinkLoop(@, excessWidth)]

HasCap(t, i) == i \in DOMAIN t.maxWidths

\* the second loop of expandColumnsToFit, over the columns i..n (0-based i)
RECURSIVE expandLoop(_, _, _, _, _, _)
expandLoop(t, ws, i, perColumn, remainder, expandedCount) ==
  LET clamp(grown) == IF HasCap(t, i) /\ grown > t.maxWidths[i]
                      THEN t.maxWidths[i] ELSE grown
      grow(extra) ==
        expandLoop(t, [ws EXCEPT ![i + 1] = clamp(@ + perColumn + extra)], i + 1,
                   perColumn, remainder, expandedCount + extra)
  IN IF i >= Len(ws) THEN ws
     ELSE IF HasCap(t, i) /\ ws[i + 1] >= t.maxWidths[i]
          THEN expandLoop(t, ws, i + 1, perColumn, remainder, expandedCount)
          ELSE grow(IF expandedCount < remainder THEN 1 ELSE 0)

\* expandColumnsToFit without the remainder: every column gets the quotient only
expandColumnsToFit_noRemainder(t, extraWidth) ==
  LET spread(expandableCols) ==
        IF expandableCols > 0
        THEN [t EXCEPT !.columnWidths =
                expandLoop(t, @, 0, extraWidth \div expandableCols, 0, 0)]
        ELSE t
  IN spread(Cardinality({i \in 0..(Len(t.columnWidths) - 1) :
                           ~HasCap(t, i) \/ t.columnWidths[i + 1] < t.maxWidths[i]}))

expandColumnsToFit(t, extraWidth) ==
  LET spread(expandableCols) ==
        IF expandableCols > 0
        THEN [t EXCEPT !.columnWidths =
                expandLoop(t, @, 0, extraWidth \div expandableCols,
                           extraWidth % expandableCols, 0)]
        ELSE t
  IN spread(Cardinality({i \in 0..(Len(t.columnWidths) - 1) :
                           ~HasCap(t, i) \/ t.columnWidths[i + 1] < t.maxWidths[i]}))

calculateOptimalColumnWidths(t, maxWidth) ==
  LET fit(t1, totalRequiredWidth) ==
        IF totalRequiredWidth > maxWidth
        THEN shrinkColumnsToFit(t1, totalRequiredWidth - maxWidth)
        ELSE IF t1.fillWidth
             THEN expandColumnsToFit(t1, maxWidth - totalRequiredWidth)
             ELSE t1
      measured(t1) == fit(t1, TotalWidth(t1.columnWidths))
  IN measured(calculateInitialColumnWidths(t))

\* ----------------------------------------------------------------- Render
\* A piece of output is [st, text]: the bytes written, or the way the Go
\* code fails to return ("panic": index or slice bound out of range, negative
\* strings.Repeat count; "diverge": a loop that never ends).

Txt(x) == [st |-> "ok", text |-> x]
Fail(st) == [st |-> st, text |-> <<>>]
Then(a, b) ==
  IF a.st # "ok" THEN a
  ELSE IF b.st # "ok" THEN b
  ELSE Txt(a.text \o b.text)

NL == <<"\n">>

getStyledChar(t, char) ==
  IF t.borderless THEN <<" ">>
  ELSE IF t.dimBorder /\ t.supportANSI THEN DimStyleStart \o <<char>> \o DimStyleEnd
  ELSE <<char>>

\* strings.Repeat panics on a negative count
getStyledHLine(t, width) ==
  IF width < 0 THEN Fail("panic")
  ELSE IF t.borderless THEN Txt(Repeat(" ", width))
  ELSE IF t.dimBorder /\ t.supportANSI
       THEN Txt(DimStyleStart \o Repeat(HLine, width) \o DimStyleEnd)
  ELSE Txt(Repeat(HLine, width))

getHighlightedText(t, text, headerIndex) ==
  IF ~t.supportANSI THEN text
  ELSE IF isHighlightedHeader(t, headerIndex)
       THEN BoldStyleStart \o text \o BoldStyleEnd
  ELSE text

\* formatCellContent for a colIndex inside columnWidths
formatCellContent(t, content, colIndex) ==
  LET aligned(a, pad) ==
        IF a = "right" THEN <<" ">> \o Repeat(" ", pad) \o content \o <<" ">>
        ELSE IF a = "center"
             THEN <<" ">> \o Repeat(" ", pad \div 2) \o content
                    \o Repeat(" ", pad - (pad \div 2)) \o <<" ">>
        ELSE <<" ">> \o content \o Repeat(" ", pad) \o <<" ">>
  IN aligned(t.alignments[colIndex + 1],
             Max(t.columnWidths[colIndex + 1]
                   - RuneCountInString(stripANSI(content)), 0))

\* the loop shared by the border renderers: the columns from..n (1-based),
\* each an HLine of w + 2, with junction between two of them
RECURSIVE hlineRun(_, _, _)
hlineRun(t, from, junction) ==
  IF from > Len(t.columnWidths) THEN Txt(<<>>)
  ELSE Then(getStyledHLine(t, t.columnWidths[from] + 2),
            Then(Txt(IF from < Len(t.columnWidths)
                     THEN getStyledChar(t, junction) ELSE <<>>),
                 hlineRun(t, from + 1, junction)))

renderTopBorder(t) ==
  Then(Txt(getStyledChar(t, TopLeft)),
       Then(hlineRun(t, 1, TopT), Txt(getStyledChar(t, TopRight) \o NL)))

renderMiddleBorder(t) ==
  Then(Txt(getStyledChar(t, LeftT)),
       Then(hlineRun(t, 1, Cross), Txt(getStyledChar(t, RightT) \o NL)))

renderBottomBorder(t) ==
  Then(Txt(getStyledChar(t, BottomLeft)),
       Then(hlineRun(t, 1, BottomT), Txt(getStyledChar(t, BottomRight) \o NL)))

\* columnWidths[0] panics on a table without columns
firstColumn(t) ==
  IF Len(t.columnWidths) = 0 THEN Fail("panic")
  ELSE getStyledHLine(t, t.columnWidths[1] + 2)

renderDescToDataBorder(t) ==
  Then(Txt(getStyledChar(t, LeftT)),
       Then(firstColumn(t),
            Then(Txt(getStyledChar(t, Cross)),
                 Then(hlineRun(t, 2, TopT), Txt(getStyledChar(t, RightT) \o NL)))))

\* smartSplitCellContent of each cell in turn: the wrapped cells, or the first
\* failure (a cell beyond columnWidths is an index out of range)
RECURSIVE splitCells(_, _, _)
splitCells(t, cells, ci) ==
  LET cons(c, rest) == IF rest.st # "ok" THEN rest ELSE Ok(<<c.lines>> \o rest.lines)
      first(c) == IF c.st # "ok" THEN c ELSE cons(c, splitCells(t, cells, ci + 1))
  IN IF ci > Len(cells) THEN Ok(<<>>)
     ELSE IF ci > Len(t.columnWidths) THEN Panic
     ELSE first(smartSplitCellContent(cells[ci], t.columnWidths[ci]))

\* the display lines of a wrapped header or data row
cellLines(t, wrapped, isHeader) ==
  LET maxR == SeqMax([ci \in 1..Len(wrapped) |-> Len(wrapped[ci])])
      cell(line, ci) ==
        LET txt == IF line <= Len(wrapped[ci]) THEN wrapped[ci][line] ELSE <<>>
        IN formatCellContent(t,
             IF isHeader THEN getHighlightedText(t, txt, ci - 1) ELSE txt, ci - 1)
             \o getStyledChar(t, VLine)
  IN Concat([line \in 1..maxR |->
       getStyledChar(t, VLine)
         \o Concat([ci \in 1..Len(wrapped) |-> cell(line, ci)]) \o NL])

\* sum over the columns 2..n of w + 2, plus one per separator between them
mergedWidthOf(t) ==
  LET n == Len(t.columnWidths)
  IN IF n >= 2 THEN SumPlus3([i \in 1..(n - 1) |-> t.columnWidths[i + 1]]) - 1
     ELSE 0

\* "|" + the empty first cell + the given glyph: the left part of every line
\* of a description block
descLeft(t, glyph) ==
  IF Len(t.columnWidths) = 0 THEN Fail("panic")
  ELSE Txt(getStyledChar(t, VLine) \o formatCellContent(t, <<>>, 0)
             \o getStyledChar(t, glyph))

\* descBorder that draws the column junctions on every description border,
\* the separators between two descriptions included
descBorder_alwaysJunctions(t, di, mergedWidth) ==
  Then(descLeft(t, LeftT),
       Then(hlineRun(t, 2, BottomT), Txt(getStyledChar(t, RightT) \o NL)))

descBorder(t, di, mergedWidth) ==
  Then(descLeft(t, LeftT),
       Then(IF di = 0 THEN hlineRun(t, 2, BottomT) ELSE getStyledHLine(t, mergedWidth),
            Txt(getStyledChar(t, RightT) \o NL)))

descTitle(t, title, mergedWidth) ==
  LET line(headerText) ==
        headerText
          \o Repeat(" ", Max(mergedWidth - RuneCountInString(stripANSI(headerText)), 0))
          \o getStyledChar(t, VLine) \o NL
  IN Then(descLeft(t, VLine),
          Txt(line(<<" ", "[", " ">> \o BoldStyleStart \o title \o BoldStyleEnd
                     \o <<" ", "]">>)))

\* the display lines of one wrapped bullet, after descLeft has not panicked
bulletLines(t, wrapped, mergedWidth) ==
  LET prefix == <<" ">>
      padded(disp) ==
        disp \o Repeat(" ", Max(mergedWidth - RuneCountInString(stripANSI(disp)), 0))
      one(i, left) ==
        left \o padded((IF i = 1 THEN prefix
                        ELSE Repeat(" ", RuneCountInString(prefix))) \o wrapped[i])
             \o getStyledChar(t, VLine) \o NL
      all(left) ==
        IF Len(wrapped) = 0 THEN Txt(<<>>)
        ELSE IF left.st # "ok" THEN left
        ELSE Txt(Concat([i \in 1..Len(wrapped) |-> one(i, left.text)]))
  IN all(descLeft(t, VLine))

RECURSIVE bulletsLoop(_, _, _, _)
bulletsLoop(t, bps, k, mergedWidth) ==
  LET lines(wrapped) ==
        IF wrapped.st # "ok" THEN Fail(wrapped.st)
        ELSE Then(bulletLines(t, wrapped.lines, mergedWidth),
                  bulletsLoop(t, bps, k + 1, mergedWidth))
      bullet(bp) ==
        IF bp = <<>> THEN bulletsLoop(t, bps, k + 1, mergedWidth)
        ELSE lines(smartSplitByWords(bp,
                     Max(mergedWidth - RuneCountInString(<<" ">>) - 2, 0)))
  IN IF k > Len(bps) THEN Txt(<<>>) ELSE bullet(TrimSpace(bps[k]))

RECURSIVE descsLoop(_, _, _, _)
descsLoop(t, ri, di, mergedWidth) ==
  LET descs == t.Descriptions[ri]
      titles == IF ri \in DOMAIN t.DescriptionTitles
                THEN t.DescriptionTitles[ri] ELSE <<>>
  IN IF di >= Len(descs) THEN Txt(<<>>)
     ELSE Then(descBorder(t, di, mergedWidth),
          Then(IF di < Len(titles) /\ titles[di + 1] # <<>>
               THEN descTitle(t, titles[di + 1], mergedWidth) ELSE Txt(<<>>),
          Then(bulletsLoop(t, Split(descs[di + 1], "\n"), 1, mergedWidth),
               descsLoop(t, ri, di + 1, mergedWidth))))

hasDescs(t, ri) == ri \in DOMAIN t.Descriptions /\ Len(t.Descriptions[ri]) > 0

\* afterDescs without the case of the last row: it always draws the border
\* that leads to a next row
afterDescs_noBottom(t, ri, mergedWidth) ==
  IF hasDescs(t, ri + 1) THEN renderDescToDataBorder(t)
  ELSE Then(Txt(getStyledChar(t, LeftT)),
       Then(firstColumn(t),
       Then(Txt(getStyledChar(t, Cross)),
       Then(hlineRun(t, 2, TopT), Txt(getStyledChar(t, RightT) \o NL)))))

\* the border drawn after the description blocks of row ri
afterDescs(t, ri, mergedWidth) ==
  IF ri = Len(t.Rows) - 1
  THEN Then(Txt(getStyledChar(t, BottomLeft)),
       Then(firstColumn(t),
       Then(Txt(getStyledChar(t, BottomT)),
       Then(getStyledHLine(t, mergedWidth),
            Txt(getStyledChar(t, BottomRight) \o NL)))))
  ELSE IF hasDescs(t, ri + 1) THEN renderDescToDataBorder(t)
  ELSE Then(Txt(getStyledChar(t, LeftT)),
       Then(firstColumn(t),
       Then(Txt(getStyledChar(t, Cross)),
       Then(hlineRun(t, 2, TopT), Txt(getStyledChar(t, RightT) \o NL)))))

RECURSIVE rowsLoop(_, _)
rowsLoop(t, ri) ==
  LET row(wrapped, mergedWidth) ==
        IF wrapped.st # "ok" THEN Fail(wrapped.st)
        ELSE Then(Txt(cellLines(t, wrapped.lines, FALSE)),
             Then(IF hasDescs(t, ri)
                  THEN Then(descsLoop(t, ri, 0, mergedWidth),
                            afterDescs(t, ri, mergedWidth))
                  ELSE IF ri < Len(t.Rows) - 1 THEN renderMiddleBorder(t)
                  ELSE Txt(<<>>),
                  rowsLoop(t, ri + 1)))
  IN IF ri >= Len(t.Rows) THEN Txt(<<>>)
     ELSE row(splitCells(t, t.Rows[ri + 1], 1), mergedWidthOf(t))

\* Render from "var sb strings.Builder" on: the drawing of a table whose
\* columnWidths are set
draw(t) ==
  LET headers(headerLines) ==
        IF headerLines.st # "ok" THEN Fail(headerLines.st)
        ELSE Txt(cellLines(t, headerLines.lines, TRUE))
  IN Then(renderTopBorder(t),
     Then(headers(splitCells(t, t.Headers, 1)),
     Then(renderMiddleBorder(t),
     Then(rowsLoop(t, 0),
          IF ~hasDescs(t, Len(t.Rows) - 1) THEN renderBottomBorder(t)
          ELSE Txt(<<>>)))))

\* the branch of Render for a stdout that is no terminal: strips in place
stripTable(t) ==
  [t EXCEPT
     !.dimBorder = FALSE,
     !.highlightHeaders = FALSE,
     !.Headers = [i \in 1..Len(t.Headers) |-> stripANSI(t.Headers[i])],
     !.Rows = [r \in 1..Len(t.Rows) |->
                 [c \in 1..Len(t.Rows[r]) |-> stripANSI(t.Rows[r][c])]],
     !.Descriptions = [ri \in DOMAIN t.Descriptions |->
                         [i \in 1..Len(t.Descriptions[ri]) |->
                            stripANSI(t.Descriptions[ri][i])]],
     !.DescriptionTitles = [ri \in DOMAIN t.DescriptionTitles |->
                         [i \in 1..Len(t.DescriptionTitles[ri]) |->
                            stripANSI(t.DescriptionTitles[ri][i])]]]

\* Render of a table with rowCountEnabled = FALSE: [t, res], the table as
\* Render leaves it and what Render returns
\* renderTable that measures a table only while its widths are all zero, and
\* fits the widths an earlier Render left otherwise
renderTable_reusesWidths(t) ==
  LET drawn(t1) == [t |-> t1, res |-> draw(t1)]
      unmeasured == \A i \in 1..Len(t.columnWidths) : t.columnWidths[i] = 0
  IN drawn(IF ~t.supportANSI THEN calculateInitialColumnWidths(stripTable(t))
           ELSE IF t.group = 0 /\ unmeasured
                THEN calculateOptimalColumnWidths(t, t.consoleWidth)
                ELSE adjustColumnWidthsToFit(t))

renderTable(t) ==
  LET drawn(t1) == [t |-> t1, res |-> draw(t1)]
  IN drawn(IF ~t.supportANSI THEN calculateInitialColumnWidths(stripTable(t))
           ELSE IF t.group = 0 THEN calculateOptimalColumnWidths(t, t.consoleWidth)
           ELSE adjustColumnWidthsToFit(t))

\* fmt.Sprintf("%d", n) for n >= 0
RECURSIVE Decimal(_)
Decimal(n) ==
  LET digit(k) == <<"0", "1", "2", "3", "4", "5", "6", "7", "8", "9">>[k + 1]
  IN IF n < 10 THEN <<digit(n)>> ELSE Append(Decimal(n \div 10), digit(n % 10))

RECURSIVE addNumberedRows(_, _, _)
addNumberedRows(nt, rows, i) ==
  IF i > Len(rows) THEN nt
  ELSE addNumberedRows(AddRow(nt, <<Decimal(i)>> \o rows[i]), rows, i + 1)

\* prepareWithRowCount for rowCountEnabled = TRUE
prepareWithRowCount(t) ==
  LET fresh == NewTable(<<<<"#">>>> \o t.Headers, minTerminalWidth, t.supportANSI)
      nt == [fresh EXCEPT
               !.Descriptions = t.Descriptions,
               !.DescriptionTitles = t.DescriptionTitles,
               !.consoleWidth = t.consoleWidth,
               !.fillWidth = t.fillWidth,
               !.dimBorder = t.dimBorder,
               !.supportANSI = t.supportANSI,
               !.borderless = t.borderless,
               !.highlightHeaders = t.highlightHeaders,
               !.highlightedHeaders = t.highlightedHeaders,
               !.group = t.group,
               !.rowCountEnabled = FALSE,
               !.alignments = <<"right">> \o t.alignments,
               !.maxWidths = [c \in {k + 1 : k \in DOMAIN t.maxWidths} |->
                                t.maxWidths[c - 1]]]
  IN addNumberedRows(nt, t.Rows, 1)

\* Table.Render.  With rowCountEnabled the numbered copy is rendered; it
\* shares the two description maps with t, so what the copy strips from them
\* is stripped in t.
Render(t) ==
  LET back(r) ==
        IF t.rowCountEnabled
        THEN [t |-> [t EXCEPT !.Descriptions = r.t.Descriptions,
                              !.DescriptionTitles = r.t.DescriptionTitles],
              res |-> r.res]
        ELSE r
  IN back(renderTable(IF t.rowCountEnabled THEN prepareWithRowCount(t) ELSE t))

\* ------------------------------------------------------------- the group
\* A TableGroup is [tables, columnWidths]: the member ids in insertion order.

NewGroup == [tables |-> <<>>, columnWidths |-> <<>>]

\* the first loop of SyncColumnWidths without the measuring of the members:
\* it takes the maximum of the widths the members hold
RECURSIVE syncMaxLoop_noMeasure(_, _, _, _, _)
syncMaxLoop_noMeasure(members, k, T, gw, colCount) ==
  LET grow(t1, i, width) ==
        IF width > gw[i]
        THEN IF HasCap(t1, i - 1) /\ width > t1.maxWidths[i - 1]
             THEN t1.maxWidths[i - 1] ELSE width
        ELSE gw[i]
      member(id, t1) ==
        syncMaxLoop_noMeasure(members, k + 1, [T EXCEPT ![id] = t1],
          [i \in 1..colCount |->
             IF i <= Len(t1.columnWidths)
             THEN grow(t1, i, Min(t1.columnWidths[i], maxColumnWidth)) ELSE gw[i]],
          colCount)
  IN IF k > Len(members) THEN [T |-> T, gw |-> gw]
     ELSE member(members[k], T[members[k]])

\* the first loop of SyncColumnWidths from member k on: T is the tables, gw
\* the group's widths so far.  The "make" of a member's columnWidths is undone
\* by calculateInitialColumnWidths, which sizes them to the member's headers.
RECURSIVE syncMaxLoop(_, _, _, _, _)
syncMaxLoop(members, k, T, gw, colCount) ==
  LET grow(t1, i, width) ==
        IF width > gw[i]
        THEN IF HasCap(t1, i - 1) /\ width > t1.maxWidths[i - 1]
             THEN t1.maxWidths[i - 1] ELSE width
        ELSE gw[i]
      member(id, t1) ==
        syncMaxLoop(members, k + 1, [T EXCEPT ![id] = t1],
          [i \in 1..colCount |->
             IF i <= Len(t1.columnWidths)
             THEN grow(t1, i, Min(t1.columnWidths[i], maxColumnWidth)) ELSE gw[i]],
          colCount)
  IN IF k > Len(members) THEN [T |-> T, gw |-> gw]
     ELSE member(members[k], calculateInitialColumnWidths(T[members[k]]))

\* the second loop: broadcast and fit
RECURSIVE syncApplyLoop(_, _, _, _, _)
syncApplyLoop(members, k, T, gw, colCount) ==
  LET apply(id) ==
        syncApplyLoop(members, k + 1,
          [T EXCEPT ![id] = adjustColumnWidthsToFit(
             [@ EXCEPT !.columnWidths = [i \in 1..Len(@) |->
                                           IF i <= colCount THEN gw[i] ELSE @[i]]])],
          gw, colCount)
  IN IF k > Len(members) THEN T ELSE apply(members[k])

\* TableGroup.SyncColumnWidths on the group g and the tables T: [g, T]
SyncColumnWidths(g, T) ==
  LET apply(m, colCount) ==
        [g |-> [g EXCEPT !.columnWidths = m.gw],
         T |-> syncApplyLoop(g.tables, 1, m.T, m.gw, colCount)]
      sync(colCount) ==
        apply(syncMaxLoop(g.tables, 1, T, [i \in 1..colCount |-> 0], colCount), colCount)
  IN IF Len(g.tables) = 0 THEN [g |-> g, T |-> T]
     ELSE sync(Len(T[g.tables[1]].Headers))

\* ------------------------------------------------------ the state machine

VARIABLES
  tables,    \* table id -> Table: the tables the program has created
  grp,       \* the TableGroup
  synced,    \* table id -> [done, cw]: whether SyncColumnWidths has run on the
             \* table as a member, and the columnWidths that run left it
  out,       \* [id, st, text]: what the last Render returned, st = "none" before
  last,      \* [op, id]: the operation that led to this state
  ops,       \* the number of operations so far
  wrapIn,    \* [content, maxWidth]: the arguments of a wrapper call
  wrapOut    \* [fn, st, lines]: what the wrapper returned, fn = "none" before

vars == <<tables, grp, synced, out, last, ops, wrapIn, wrapOut>>

\* bounds of the model
MaxOps == 3
MaxGroupOps == 4

\* ---- the texts the operations are fed

txtA == <<"A">>
txtName == <<"N", "a", "m", "e">>
txtX == <<"x">>
txtWords == <<"a", "b", " ", "c", "d">>
txtTitle == <<"N", "o", "t", "e">>
txtStyled == <<ESC, "[", "3", "1", "m", "a", "b", ESC, "[", "0", "m">>
txtComma == <<"c", ",", "d", "e", "f", "g", "h">>
\* an escape sequence that appears once the one inside it is removed
txtNested == <<ESC, "[", ESC, "[", "1", "m", "m">>

HeaderSets == {<<>>, <<txtA>>, <<txtA, txtName>>}
RowInputs == {<<txtX>>, <<txtStyled, txtComma>>, <<txtNested>>}
BodyInputs == {txtWords}
TitleInputs == {txtTitle}
RowIndexInputs == {-1, 0, 1}
ColumnInputs == {0, 2}
AlignmentInputs == {"right", "center"}
CapInputs == {-3, 0, 2}
ConsoleWidthInputs == {10, 20, 21}
HighlightInputs == {<<0>>, <<5>>}

NoOut == [id |-> 0, st |-> "none", text |-> <<>>]
NoWrap == [fn |-> "none", st |-> "none", lines |-> <<>>]
NoWrapIn == [content |-> <<>>, maxWidth |-> 0]

\* the program is running: no Render has panicked or hung
Alive == out.st \in {"none", "ok"}

TableIds == DOMAIN tables

\* a call of a method of table id that changes that table alone
Mutate(name, id, t1, bound) ==
  /\ Alive
  /\ ops < bound
  /\ tables' = [tables EXCEPT ![id] = t1]
  /\ last' = [op |-> name, id |-> id]
  /\ ops' = ops + 1
  /\ UNCHANGED <<grp, synced, out, wrapIn, wrapOut>>

DoAddRow(id, row, bound) == Mutate("AddRow", id, AddRow(tables[id], row), bound)

DoAddDescription(id, rowIndex, body, bound) ==
  Mutate("AddDescription", id, AddDescription(tables[id], rowIndex, body), bound)

DoAddDescriptionWithTitle(id, rowIndex, title, body, bound) ==
  Mutate("AddDescriptionWithTitle", id,
         AddDescriptionWithTitle(tables[id], rowIndex, title, body), bound)

DoSetAlignment(id, col, a, bound) ==
  Mutate("SetAlignment", id, SetAlignment(tables[id], col, a), bound)

DoSetMaxWidth(id, col, w, bound) ==
  Mutate("SetMaxWidth", id, SetMaxWidth(tables[id], col, w), bound)

DoSetFillWidth(id, b, bound) ==
  Mutate("SetFillWidth", id, SetFillWidth(tables[id], b), bound)

DoSetConsoleWidth(id, w, bound) ==
  Mutate("SetConsoleWidth", id, SetConsoleWidth(tables[id], w), bound)

DoSetDimBorder(id, b, bound) ==
  Mutate("SetDimBorder", id, SetDimBorder(tables[id], b), bound)

DoSetBorderless(id, b, bound) ==
  Mutate("SetBorderless", id, SetBorderless(tables[id], b), bound)

DoSetHeaderHighlighting(id, b, bound) ==
  Mutate("SetHeaderHighlighting", id, SetHeaderHighlighting(tables[id], b), bound)

DoSetHighlightedHeaders(id, indices, bound) ==
  Mutate("SetHighlightedHeaders", id, SetHighlightedHeaders(tables[id], indices), bound)

DoAddHighlightedHeader(id, index, bound) ==
  Mutate("AddHighlightedHeader", id, AddHighlightedHeader(tables[id], index), bound)

DoClearHighlightedHeaders(id, bound) ==
  Mutate("ClearHighlightedHeaders", id, ClearHighlightedHeaders(tables[id]), bound)

DoEnableRowCount(id, b, bound) ==
  Mutate("EnableRowCount", id, EnableRowCount(tables[id], b), bound)

DoRender(id, bound) ==
  LET returned(r) ==
        /\ tables' = [tables EXCEPT ![id] = r.t]
        /\ out' = [id |-> id, st |-> r.res.st, text |-> r.res.text]
  IN /\ Alive
     /\ ops < bound
     /\ returned(Render(tables[id]))
     /\ last' = [op |-> "Render", id |-> id]
     /\ ops' = ops + 1
     /\ UNCHANGED <<grp, synced, wrapIn, wrapOut>>

\* TableGroup.Add
DoGroupAdd(id, bound) ==
  /\ Alive
  /\ ops < bound
  /\ grp' = [grp EXCEPT !.tables = Append(@, id)]
  /\ tables' = [tables EXCEPT ![id].group = 1]
  /\ last' = [op |-> "Add", id |-> id]
  /\ ops' = ops + 1
  /\ UNCHANGED <<synced, out, wrapIn, wrapOut>>

DoSyncColumnWidths(bound) ==
  LET members == {grp.tables[k] : k \in 1..Len(grp.tables)}
      returned(r) ==
        /\ grp' = r.g
        /\ tables' = r.T
        /\ synced' = [id \in DOMAIN synced |->
                        IF id \in members
                        THEN [done |-> TRUE, cw |-> r.T[id].columnWidths]
                        ELSE synced[id]]
  IN /\ Alive
     /\ ops < bound
     /\ returned(SyncColumnWidths(grp, tables))
     /\ last' = [op |-> "SyncColumnWidths", id |-> 0]
     /\ ops' = ops + 1
     /\ UNCHANGED <<out, wrapIn, wrapOut>>

\* ---- Spec: a program with one table and the whole public interface

InitTables(ids, headerSets) ==
  /\ \E isTerminal \in BOOLEAN :
       tables \in [ids -> {NewTable(h, minTerminalWidth, isTerminal) : h \in headerSets}]
  /\ grp = NewGroup
  /\ synced = [id \in ids |-> [done |-> FALSE, cw |-> <<>>]]
  /\ out = NoOut
  /\ last = [op |-> "NewTable", id |-> 0]
  /\ ops = 0

Init ==
  /\ InitTables({1}, HeaderSets)
  /\ wrapIn = NoWrapIn
  /\ wrapOut = NoWrap

Next ==
  \/ \E row \in RowInputs : DoAddRow(1, row, MaxOps)
  \/ \E ri \in RowIndexInputs, body \in BodyInputs :
       DoAddDescription(1, ri, body, MaxOps)
  \/ \E ri \in RowIndexInputs, title \in TitleInputs, body \in BodyInputs :
       DoAddDescriptionWithTitle(1, ri, title, body, MaxOps)
  \/ \E col \in ColumnInputs, a \in AlignmentInputs : DoSetAlignment(1, col, a, MaxOps)
  \/ \E col \in ColumnInputs, w \in CapInputs : DoSetMaxWidth(1, col, w, MaxOps)
  \/ \E b \in BOOLEAN : DoSetFillWidth(1, b, MaxOps)
  \/ \E w \in ConsoleWidthInputs : DoSetConsoleWidth(1, w, MaxOps)
  \/ \E b \in BOOLEAN : DoSetDimBorder(1, b, MaxOps)
  \/ \E b \in BOOLEAN : DoSetBorderless(1, b, MaxOps)
  \/ \E b \in BOOLEAN : DoSetHeaderHighlighting(1, b, MaxOps)
  \/ \E indices \in HighlightInputs : DoSetHighlightedHeaders(1, indices, MaxOps)
  \/ \E index \in {0, 5} : DoAddHighlightedHeader(1, index, MaxOps)
  \/ DoClearHighlightedHeaders(1, MaxOps)
  \/ \E b \in BOOLEAN : DoEnableRowCount(1, b, MaxOps)
  \/ DoRender(1, MaxOps)
  \/ DoGroupAdd(1, MaxOps)
  \/ DoSyncColumnWidths(MaxOps)

Spec == Init /\ [][Next]_vars

\* ---- SpecWrap: the cell wrappers as pure functions of (content, maxWidth)

MaxWrapLen == 4
MaxWrapWidth == 3

WrapAlphabet == {"a", "b", ",", "/", " "}

\* the texts of at most MaxWrapLen bytes over WrapAlphabet, and a styled, a
\* two-byte-rune and a dotted text
WrapTexts ==
  UNION {[1..n -> WrapAlphabet] : n \in 0..MaxWrapLen}
    \cup {txtStyled, txtWords, <<"a", LeadByte, ContByte, "b">>, <<"a", ".", "b", "c">>}

InitWrap ==
  /\ wrapIn \in [content : WrapTexts, maxWidth : 1..MaxWrapWidth]
  /\ wrapOut = NoWrap
  /\ tables = <<>>
  /\ grp = NewGroup
  /\ synced = <<>>
  /\ out = NoOut
  /\ last = [op |-> "none", id |-> 0]
  /\ ops = 0

Wrapped(fn, r) ==
  /\ wrapOut.fn = "none"
  /\ wrapOut' = [fn |-> fn, st |-> r.st, lines |-> r.lines]
  /\ UNCHANGED <<tables, grp, synced, out, last, ops, wrapIn>>

\* t.smartSplitCellContent(content, colIndex) with t.columnWidths[colIndex] = maxWidth
DoSmartSplitCellContent ==
  Wrapped("smartSplitCellContent", smartSplitCellContent(wrapIn.content, wrapIn.maxWidth))

\* t.smartSplitByWords(text, maxWidth)
DoSmartSplitByWords ==
  Wrapped("smartSplitByWords", smartSplitByWords(wrapIn.content, wrapIn.maxWidth))

NextWrap == DoSmartSplitCellContent \/ DoSmartSplitByWords

SpecWrap == InitWrap /\ [][NextWrap]_vars

\* the visible length of a line: its runes once the escape sequences are out
VisibleLen(line) == RuneCountInString(stripANSI(line))

\* the bytes of s that are no whitespace, in order
NonSpace(s) == SelectSeq(s, LAMBDA c : c \notin Spaces)

\* C7: for every cell text and every column width maxWidth >= 1, each line
\* smartSplitCellContent returns has visible length <= maxWidth, whichever of
\* the comma-list, path and word strategies produced it.
C7_LinesFitWidth ==
  (wrapOut.fn = "smartSplitCellContent" /\ wrapOut.st = "ok" /\ wrapIn.maxWidth >= 1)
    => \A i \in 1..Len(wrapOut.lines) : VisibleLen(wrapOut.lines[i]) <= wrapIn.maxWidth

\* C8: the cell wrapper is lossless under stripANSI: the stripped wrapped
\* lines, joined, are the stripped content up to whitespace; no comma, slash
\* or letter is dropped, added or reordered.
C8_WrapLossless ==
  (wrapOut.fn = "smartSplitCellContent" /\ wrapOut.st = "ok")
    => NonSpace(Concat([i \in 1..Len(wrapOut.lines) |-> stripANSI(wrapOut.lines[i])]))
         = NonSpace(stripANSI(wrapIn.content))

\* ---- SpecGroup: a program with two tables and the group they are added to

GroupHeaderSets == {<<txtName>>, <<txtA, txtName>>}
GroupRowInputs == {<<txtComma>>, <<txtX, txtWords>>}
GroupColumnInputs == {0, 1}
GroupCapInputs == {2}
GroupConsoleWidthInputs == {10}
GroupFillInputs == {TRUE}

InitGroup ==
  /\ InitTables({1, 2}, GroupHeaderSets)
  /\ wrapIn = NoWrapIn
  /\ wrapOut = NoWrap

NextGroup ==
  \/ \E id \in {1, 2}, row \in GroupRowInputs : DoAddRow(id, row, MaxGroupOps)
  \/ \E id \in {1, 2}, col \in GroupColumnInputs, w \in GroupCapInputs :
       DoSetMaxWidth(id, col, w, MaxGroupOps)
  \/ \E id \in {1, 2}, w \in GroupConsoleWidthInputs :
       DoSetConsoleWidth(id, w, MaxGroupOps)
  \/ \E id \in {1, 2}, b \in GroupFillInputs : DoSetFillWidth(id, b, MaxGroupOps)
  \/ \E id \in {1, 2} : DoGroupAdd(id, MaxGroupOps)
  \/ DoSyncColumnWidths(MaxGroupOps)
  \/ \E id \in {1, 2} : DoRender(id, MaxGroupOps)

SpecGroup == InitGroup /\ [][NextGroup]_vars

\* ------------------------------------------------------------- the claims

\* the lines of a rendered string: the pieces its "\n" bytes end
OutLines(text) ==
  LET pieces == Split(text, "\n")
  IN IF pieces[Len(pieces)] = <<>> THEN Upto(pieces, Len(pieces) - 1) ELSE pieces

\* C1: all lines one Render call emits (borders, header lines, data-row
\* lines, description borders, title lines and bullet lines) have the same
\* visible width, for every table and every setting of its flags.
C1_LinesEqualWidth ==
  (last.op = "Render" /\ out.st = "ok")
    => \A i, j \in 1..Len(OutLines(out.text)) :
         VisibleLen(OutLines(out.text)[i]) = VisibleLen(OutLines(out.text)[j])

\* C2: Render never aborts: for any table built through the public
\* operations it returns a string, without a runtime panic.
C2_RenderNeverAborts == out.st \in {"none", "ok"}

\* the ids of the tables of the group
Members == {grp.tables[k] : k \in 1..Len(grp.tables)}

\* C3: once SyncColumnWidths has run on a table's group, every later Render
\* of that member leaves its columnWidths equal to the synced values, whether
\* the table supports styling or not.
C3_RenderKeepsSyncedWidths ==
  (last.op = "Render" /\ out.st = "ok" /\ synced[last.id].done)
    => tables[last.id].columnWidths = synced[last.id].cw

\* C4: after SyncColumnWidths all members report the same width for every
\* column index they share.
C4_MembersAgree ==
  last.op = "SyncColumnWidths"
    => \A a, b \in Members :
         \A i \in 1..Min(Len(tables[a].columnWidths), Len(tables[b].columnWidths)) :
           tables[a].columnWidths[i] = tables[b].columnWidths[i]

\* the width column i (1-based) of t needs: its widest header or cell
MinWidth(t, i) ==
  Max(VisibleLen(t.Headers[i]),
      SeqMax([r \in 1..Len(t.Rows) |->
                IF i <= Len(t.Rows[r]) THEN VisibleLen(t.Rows[r][i]) ELSE 0]))

\* the smallest of the global cap and the caps the members declare for column i
SmallestCap(i) ==
  LET caps == {tables[id].maxWidths[i - 1] : id \in {m \in Members : HasCap(tables[m], i - 1)}}
  IN IF caps = {} THEN maxColumnWidth
     ELSE Min(maxColumnWidth, CHOOSE c \in caps : \A d \in caps : c <= d)

\* C5: the width SyncColumnWidths assigns to a column is the maximum over the
\* members of the member's minimum width, clamped to the smaller of the global
\* cap 50 and the smallest cap any member declares for that column.
C5_SyncedVector ==
  last.op = "SyncColumnWidths"
    => \A id \in Members :
         \A i \in 1..Min(Len(tables[id].Headers), Len(grp.columnWidths)) :
           tables[id].columnWidths[i] =
             Min(SmallestCap(i),
                 SeqMax([k \in 1..Len(grp.tables) |->
                           IF i <= Len(tables[grp.tables[k]].Headers)
                           THEN MinWidth(tables[grp.tables[k]], i) ELSE 0]))

\* every capped column of t reports a width within its cap
WithinCaps(t) ==
  \A i \in 1..Len(t.columnWidths) :
    HasCap(t, i - 1) => t.columnWidths[i] <= t.maxWidths[i - 1]

\* C6: a column with a per-column cap c never reports a width above c, after
\* a solo Render and after SyncColumnWidths on the table's group.
C6_CapRespected ==
  /\ (last.op = "Render" /\ out.st = "ok" /\ tables[last.id].group = 0)
       => WithinCaps(tables[last.id])
  /\ last.op = "SyncColumnWidths" => \A id \in Members : WithinCaps(tables[id])

\* C9: when the table does not support styling, the string Render returns
\* contains no escape sequence.
C9_NoEscapeWhenUnstyled ==
  (last.op = "Render" /\ out.st = "ok" /\ ~tables[last.id].supportANSI)
    => stripANSI(out.text) = out.text

\* the maps of descriptions or titles with every string stripped
StrippedMap(m) == [ri \in DOMAIN m |-> [i \in 1..Len(m[ri]) |-> stripANSI(m[ri][i])]]

\* C10: a Render of a table that does not support styling replaces every
\* stored header, cell, description and title by its stripped form, and a
\* second Render right after it returns the same output and leaves the table
\* as the first left it.
C10_StripIdempotent ==
  [][(last'.op = "Render" /\ out'.st = "ok" /\ ~tables[last'.id].supportANSI)
       => /\ tables'[last'.id].Headers =
               [i \in 1..Len(tables[last'.id].Headers) |->
                  stripANSI(tables[last'.id].Headers[i])]
          /\ tables'[last'.id].Rows =
               [r \in 1..Len(tables[last'.id].Rows) |->
                  [c \in 1..Len(tables[last'.id].Rows[r]) |->
                     stripANSI(tables[last'.id].Rows[r][c])]]
          /\ tables'[last'.id].Descriptions = StrippedMap(tables[last'.id].Descriptions)
          /\ tables'[last'.id].DescriptionTitles =
               StrippedMap(tables[last'.id].DescriptionTitles)
          /\ Render(tables'[last'.id]).res = [st |-> out'.st, text |-> out'.text]
          /\ Render(tables'[last'.id]).t = tables'[last'.id]]_vars

\* the minimum width of column i (1-based) of t: what its content needs, at
\* most the global cap and at most the column's own cap
BaseWidth(t, i) ==
  LET g == Min(MinWidth(t, i), maxColumnWidth)
  IN IF HasCap(t, i - 1) /\ g > t.maxWidths[i - 1] THEN t.maxWidths[i - 1] ELSE g

BaseTotal(t) == TotalWidth([i \in 1..Len(t.Headers) |-> BaseWidth(t, i)])

\* the columns (1-based) of t that have not hit their cap
Expandable(t) ==
  {i \in 1..Len(t.Headers) : ~HasCap(t, i - 1) \/ BaseWidth(t, i) < t.maxWidths[i - 1]}

\* the share of the slack column i gets: the quotient, and one more for the
\* first (slack mod k) expandable columns
FillShare(t, i) ==
  LET slack == t.consoleWidth - BaseTotal(t)
      k == Cardinality(Expandable(t))
      rank == Cardinality({j \in Expandable(t) : j < i})
  IN IF i \in Expandable(t)
     THEN (slack \div k) + (IF rank < slack % k THEN 1 ELSE 0)
     ELSE 0

\* a Render has just computed the widths of a solo table with fillWidth whose
\* minimum widths leave slack
FillCase ==
  /\ last.op = "Render" /\ out.st = "ok"
  /\ tables[last.id].supportANSI /\ tables[last.id].group = 0
  /\ ~tables[last.id].rowCountEnabled /\ tables[last.id].fillWidth
  /\ BaseTotal(tables[last.id]) < tables[last.id].consoleWidth

\* C11 as stated: the slack is spread over the columns that have not hit their
\* cap, quotient to each and remainder to the first ones, and the total width
\* of the table equals consoleWidth.
C11_FillConsumesSlack ==
  (FillCase /\ Expandable(tables[last.id]) # {}) =>
    /\ \A i \in 1..Len(tables[last.id].Headers) :
         tables[last.id].columnWidths[i] =
           BaseWidth(tables[last.id], i) + FillShare(tables[last.id], i)
    /\ TotalWidth(tables[last.id].columnWidths) = tables[last.id].consoleWidth

\* C11 amended: each column that has not hit its cap gets its share of the
\* slack but never more than its cap; when there is such a column and none of
\* them has a cap the total width equals consoleWidth.
C11_FillUpToCaps ==
  FillCase =>
    /\ \A i \in 1..Len(tables[last.id].Headers) :
         tables[last.id].columnWidths[i] =
           IF HasCap(tables[last.id], i - 1)
           THEN Min(tables[last.id].maxWidths[i - 1],
                    BaseWidth(tables[last.id], i) + FillShare(tables[last.id], i))
           ELSE BaseWidth(tables[last.id], i) + FillShare(tables[last.id], i)
    /\ (/\ Expandable(tables[last.id]) # {}
        /\ \A i \in Expandable(tables[last.id]) : ~HasCap(tables[last.id], i - 1))
         => TotalWidth(tables[last.id].columnWidths) = tables[last.id].consoleWidth

\* a fill with two expandable columns and an odd slack
C11_Witness ==
  /\ FillCase
  /\ Cardinality(Expandable(tables[last.id])) = 2
  /\ (tables[last.id].consoleWidth - BaseTotal(tables[last.id])) % 2 = 1
  /\ TotalWidth(tables[last.id].columnWidths) = tables[last.id].consoleWidth

\* C12: the fit pass SyncColumnWidths runs on every member expands a member
\* with fillWidth whose total width is below its consoleWidth, so that after
\* the sync the member's total width reaches its consoleWidth.
C12_FitPassFills ==
  last.op = "SyncColumnWidths"
    => \A id \in Members :
         (tables[id].fillWidth /\ Len(tables[id].Headers) >= 1)
           => TotalWidth(tables[id].columnWidths) >= tables[id].consoleWidth

\* ---- SpecEdit: one table and the operations that edit it, without Render

MaxEditOps == 4

InitEdit ==
  /\ InitTables({1}, HeaderSets)
  /\ wrapIn = NoWrapIn
  /\ wrapOut = NoWrap

NextEdit ==
  \/ \E row \in RowInputs : DoAddRow(1, row, MaxEditOps)
  \/ \E ri \in RowIndexInputs, body \in BodyInputs :
       DoAddDescription(1, ri, body, MaxEditOps)
  \/ \E ri \in RowIndexInputs, title \in TitleInputs, body \in BodyInputs :
       DoAddDescriptionWithTitle(1, ri, title, body, MaxEditOps)
  \/ \E col \in ColumnInputs, a \in AlignmentInputs :
       DoSetAlignment(1, col, a, MaxEditOps)
  \/ \E col \in ColumnInputs, w \in CapInputs : DoSetMaxWidth(1, col, w, MaxEditOps)
  \/ \E indices \in HighlightInputs : DoSetHighlightedHeaders(1, indices, MaxEditOps)
  \/ \E index \in {0, 5} : DoAddHighlightedHeader(1, index, MaxEditOps)

SpecEdit == InitEdit /\ [][NextEdit]_vars

\* what a call with (rowIndex, title, body) is to do to the two maps of table 1
DescriptionEffect(rowIndex, title, body) ==
  LET t == tables[1]
      u == tables'[1]
      before(m) == IF rowIndex \in DOMAIN m THEN m[rowIndex] ELSE <<>>
  IN IF rowIndex < 0 \/ rowIndex >= Len(t.Rows)
     THEN /\ u.Descriptions = t.Descriptions
          /\ u.DescriptionTitles = t.DescriptionTitles
     ELSE /\ DOMAIN u.Descriptions = DOMAIN t.Descriptions \cup {rowIndex}
          /\ DOMAIN u.DescriptionTitles = DOMAIN t.DescriptionTitles \cup {rowIndex}
          /\ u.Descriptions[rowIndex] = before(t.Descriptions) \o <<body>>
          /\ u.DescriptionTitles[rowIndex] = before(t.DescriptionTitles) \o <<title>>
          /\ \A k \in DOMAIN t.Descriptions \ {rowIndex} :
               /\ u.Descriptions[k] = t.Descriptions[k]
               /\ u.DescriptionTitles[k] = t.DescriptionTitles[k]

C14_ColumnIndexChecked ==
  [][LET N == Len(tables[1].Headers)
         outside(c) == c < 0 \/ c >= N
         same == /\ tables'[1].alignments = tables[1].alignments
                 /\ tables'[1].maxWidths = tables[1].maxWidths
                 /\ tables'[1].highlightedHeaders = tables[1].highlightedHeaders
     IN /\ \A col \in ColumnInputs, a \in AlignmentInputs :
             (outside(col) /\ DoSetAlignment(1, col, a, MaxEditOps)) => same
        /\ \A col \in ColumnInputs, w \in CapInputs :
             (outside(col) /\ DoSetMaxWidth(1, col, w, MaxEditOps)) => same
        /\ \A index \in {0, 5} :
             (outside(index) /\ DoAddHighlightedHeader(1, index, MaxEditOps)) => same
        /\ \A indices \in HighlightInputs :
             ((\A k \in 1..Len(indices) : outside(indices[k]))
                /\ DoSetHighlightedHeaders(1, indices, MaxEditOps)) => same]_vars

\* C15: AddRow with fewer cells than the header count N stores a row of
\* exactly N cells, the given cells in order followed by empty strings; the
\* row count grows by one and the earlier rows are unchanged.
C15_AddRowPads ==
  [][\A row \in RowInputs :
       DoAddRow(1, row, MaxEditOps) =>
         LET N == Len(tables[1].Headers)
             n == Len(tables[1].Rows)
             stored == tables'[1].Rows[n + 1]
         IN /\ Len(tables'[1].Rows) = n + 1
            /\ \A r \in 1..n : tables'[1].Rows[r] = tables[1].Rows[r]
            /\ Len(row) < N =>
                 /\ Len(stored) = N
                 /\ \A c \in 1..Len(row) : stored[c] = row[c]
                 /\ \A c \in (Len(row) + 1)..N : stored[c] = <<>>]_vars

\* a one-cell row was added as the second row of a two-column table
C15_Witness ==
  /\ last.op = "AddRow"
  /\ Len(tables[1].Headers) = 2
  /\ Len(tables[1].Rows) = 2
  /\ tables[1].Rows[2] = <<txtX, <<>>>>

\* line, without its escape sequences, starts with left (or the blank of a
\* borderless table), ends with right, and holds only fill bytes in between
BorderLine(line, left, fill, right) ==
  LET v == stripANSI(line)
  IN /\ Len(v) >= 2
     /\ v[1] \in {left, " "}
     /\ v[Len(v)] \in {right, " "}
     /\ \A k \in 2..(Len(v) - 1) : v[k] \in fill \cup {" "}

\* line starts and ends with the vertical bar (or the blank of a borderless table)
ContentLine(line) ==
  LET v == stripANSI(line)
  IN Len(v) >= 2 /\ v[1] \in {VLine, " "} /\ v[Len(v)] \in {VLine, " "}

\* text is a box: a top border first, a bottom border last; onlyHeader says
\* that the lines in between are header lines and one separator
WellFormedBox(text, onlyHeader) ==
  LET ls == OutLines(text)
      n == Len(ls)
  IN /\ n >= 2
     /\ BorderLine(ls[1], TopLeft, {HLine, TopT}, TopRight)
     /\ BorderLine(ls[n], BottomLeft, {HLine, BottomT}, BottomRight)
     /\ onlyHeader =>
          /\ n >= 3
          /\ BorderLine(ls[n - 1], LeftT, {HLine, Cross}, RightT)
          /\ \A k \in 2..(n - 2) : ContentLine(ls[k])

\* C16: Render of a table with zero rows or zero columns returns a non-empty
\* well-formed box: top border first, bottom border last, and with zero rows
\* only the header lines and the header separator in between.
C16_EmptyTableBox ==
  (last.op = "Render" /\ (Len(tables[last.id].Rows) = 0 \/ Len(tables[last.id].Headers) = 0))
    => /\ out.st = "ok"
       /\ WellFormedBox(out.text, Len(tables[last.id].Rows) = 0)

\* the bullet marker of the README's description blocks
Bullet == "Bullet"

\* the non-empty units of a description body: its lines, trimmed
Units(body) ==
  SelectSeq([k \in 1..Len(Split(body, "\n")) |-> TrimSpace(Split(body, "\n")[k])],
            LAMBDA u : u # <<>>)

\* the number of units in all descriptions of t
UnitCount(t) ==
  LET RECURSIVE sum(_)
      sum(S) == IF S = {} THEN 0
                ELSE LET x == CHOOSE x \in S : TRUE
                     IN Len(Units(t.Descriptions[x[1]][x[2]])) + sum(S \ {x})
  IN sum({<<ri, di>> \in (DOMAIN t.Descriptions) \X (1..MaxOps) :
            di <= Len(t.Descriptions[ri])})

\* C17: every non-empty unit of a description body is rendered with a bullet
\* marker at the start of its first display line; continuation lines are
\* indented and carry no bullet of their own.
C17_BulletMarker ==
  (last.op = "Render" /\ out.st = "ok")
    => Cardinality({k \in 1..Len(out.text) : out.text[k] = Bullet})
         = UnitCount(tables[last.id])

\* ---- SpecHeaders: one table, the header highlighting calls and Render

MaxHeaderOps == 5

HeaderRowInputs == {<<txtX>>}

InitHeaders ==
  /\ InitTables({1}, HeaderSets)
  /\ wrapIn = NoWrapIn
  /\ wrapOut = NoWrap

NextHeaders ==
  \/ \E b \in BOOLEAN : DoSetHeaderHighlighting(1, b, MaxHeaderOps)
  \/ \E indices \in HighlightInputs : DoSetHighlightedHeaders(1, indices, MaxHeaderOps)
  \/ \E index \in {0, 5} : DoAddHighlightedHeader(1, index, MaxHeaderOps)
  \/ DoClearHighlightedHeaders(1, MaxHeaderOps)
  \/ \E b \in BOOLEAN : DoEnableRowCount(1, b, MaxHeaderOps)
  \/ \E row \in HeaderRowInputs : DoAddRow(1, row, MaxHeaderOps)
  \/ DoRender(1, MaxHeaderOps)

SpecHeaders == InitHeaders /\ [][NextHeaders]_vars

\* the text holds the bold escape sequence
HasBold(text) ==
  \E k \in 1..(Len(text) - 3) : SubSeq(text, k, k + 3) = BoldStyleStart

\* no header, cell or description of t brings a bold sequence of its own, so
\* that a bold sequence in the rendered text comes from header highlighting
PlainContent(t) ==
  /\ \A i \in 1..Len(t.Headers) : ~HasBold(t.Headers[i])
  /\ \A r \in 1..Len(t.Rows) : \A c \in 1..Len(t.Rows[r]) : ~HasBold(t.Rows[r][c])
  /\ DOMAIN t.Descriptions = {}

SingleSpaced(s) ==
  /\ TrimSpace(s) = s
  /\ \A k \in 1..(Len(s) - 1) : ~(s[k] \in Spaces /\ s[k + 1] \in Spaces)

\* C19: whenever the visible length of a cell text exceeds the column width,
\* smartSplitCellContent returns more than one display line, for paths, comma
\* lists and sentences alike (stated for texts whose whitespace is already
\* single, so that their length is not whitespace the wrapper drops).
C19_LongCellSplits ==
  (/\ wrapOut.fn = "smartSplitCellContent"
   /\ wrapOut.st = "ok"
   /\ SingleSpaced(wrapIn.content)
   /\ VisibleLen(wrapIn.content) > wrapIn.maxWidth)
    => Len(wrapOut.lines) > 1

\* ---- SpecWidths: the two shrink passes as functions of the column widths

MaxWidthOps == 2

\* widths a column can have before a shrink pass: a negative or zero cap, a
\* short text, and texts wider than the proportional step's threshold
WidthInputs == {-3, 0, 2, 4, 11, 14}
ExcessInputs == {1, 6, 10, 55}
FitConsoleInputs == {5, 20}

InitWidths ==
  /\ \E h \in {<<txtA>>, <<txtA, txtName>>}, w \in FitConsoleInputs :
       \E ws \in [1..Len(h) -> WidthInputs] :
         tables = <<[NewTable(h, w, FALSE) EXCEPT !.columnWidths = ws]>>
  /\ grp = NewGroup
  /\ synced = <<[done |-> FALSE, cw |-> <<>>]>>
  /\ out = NoOut
  /\ last = [op |-> "NewTable", id |-> 0]
  /\ ops = 0
  /\ wrapIn = NoWrapIn
  /\ wrapOut = NoWrap

DoShrinkColumnsToFit(id, excessWidth, bound) ==
  Mutate("shrinkColumnsToFit", id, shrinkColumnsToFit(tables[id], excessWidth), bound)

DoAdjustColumnWidthsToFit(id, bound) ==
  Mutate("adjustColumnWidthsToFit", id, adjustColumnWidthsToFit(tables[id]), bound)

NextWidths ==
  \/ \E e \in ExcessInputs : DoShrinkColumnsToFit(1, e, MaxWidthOps)
  \/ DoAdjustColumnWidthsToFit(1, MaxWidthOps)

SpecWidths == InitWidths /\ [][NextWidths]_vars

\* C20: no shrink pass reduces a column below width 3: a pass never widens a
\* column, a column wider than 3 is at least 3 wide after the pass, and a
\* column of width 3 or less is left unchanged.
C20_ShrinkFloor ==
  [][last'.op \in {"shrinkColumnsToFit", "adjustColumnWidthsToFit"}
       => \A i \in 1..Len(tables[1].columnWidths) :
            /\ tables'[1].columnWidths[i] <= tables[1].columnWidths[i]
            /\ (tables[1].columnWidths[i] > 3 => tables'[1].columnWidths[i] >= 3)
            /\ (tables[1].columnWidths[i] <= 3
                  => tables'[1].columnWidths[i] = tables[1].columnWidths[i])]_vars

\* shrinkColumnsToFit has brought a column down to exactly 3 (no column starts
\* at 3), beside a column that is narrower than 3
C20_Witness ==
  /\ last.op = "shrinkColumnsToFit"
  /\ \E i, j \in 1..Len(tables[1].columnWidths) :
       /\ tables[1].columnWidths[i] = 3
       /\ tables[1].columnWidths[j] < 3

\* a step of one of the two shrink passes
ShrinkStep == last'.op \in {"shrinkColumnsToFit", "adjustColumnWidthsToFit"}

\* C21 as stated: once a shrink pass has run and narrowed the table, every
\* column is at least 3 wide.
C21_AllAtLeastThree ==
  [][(ShrinkStep /\ tables'[1].columnWidths # tables[1].columnWidths)
       => \A i \in 1..Len(tables'[1].columnWidths) :
            tables'[1].columnWidths[i] >= 3]_vars

\* C21: after a shrink pass every column is at least as wide as the smaller
\* of 3 and its width before the pass: the pass stops at 3, and a column that
\* was narrower than 3 before it is as narrow after it.
C21_FloorOrKept ==
  [][ShrinkStep
       => \A i \in 1..Len(tables[1].columnWidths) :
            tables'[1].columnWidths[i] >= Min(tables[1].columnWidths[i], 3)]_vars

\* adjustColumnWidthsToFit has stopped at a column of width 3 (no column
\* starts at 3) in a table that holds a column narrower than 3
C21_Witness ==
  /\ last.op = "adjustColumnWidthsToFit"
  /\ \E i, j \in 1..Len(tables[1].columnWidths) :
       /\ tables[1].columnWidths[i] = 3
       /\ tables[1].columnWidths[j] < 3
  /\ TotalWidth(tables[1].columnWidths) >= tables[1].consoleWidth

\* ---- SpecMeasure: one table, its rows and caps, and the initial measuring

MaxMeasureOps == 3

\* a text wider than the global cap
txtLong == [k \in 1..(maxColumnWidth + 1) |-> "a"]

MeasureRowInputs == {<<txtStyled, txtComma>>, <<txtLong>>, <<txtX>>}
MeasureColumnInputs == {0, 1}
MeasureCapInputs == {-3, 1, 60}

InitMeasure ==
  /\ InitTables({1}, HeaderSets)
  /\ wrapIn = NoWrapIn
  /\ wrapOut = NoWrap

DoCalculateInitialColumnWidths(id, bound) ==
  Mutate("calculateInitialColumnWidths", id,
         calculateInitialColumnWidths(tables[id]), bound)

NextMeasure ==
  \/ \E row \in MeasureRowInputs : DoAddRow(1, row, MaxMeasureOps)
  \/ \E col \in MeasureColumnInputs, w \in MeasureCapInputs :
       DoSetMaxWidth(1, col, w, MaxMeasureOps)
  \/ DoCalculateInitialColumnWidths(1, MaxMeasureOps)

SpecMeasure == InitMeasure /\ [][NextMeasure]_vars

\* the least and the greatest number of a non-empty finite set
Least(S) == CHOOSE x \in S : \A y \in S : x <= y
Greatest(S) == CHOOSE x \in S : \A y \in S : x >= y

\* the visible lengths found in column i (1-based) of t: its header's and
\* that of every cell a row holds at i
ColumnLengths(t, i) ==
  {VisibleLen(t.Headers[i])}
    \cup {VisibleLen(t.Rows[r][i]) : r \in {q \in 1..Len(t.Rows) : i <= Len(t.Rows[q])}}

\* the width claimed for column i: the least of the global cap, the column's
\* cap when it has one, and the greatest visible length in the column
MeasuredWidth(t, i) ==
  Least({maxColumnWidth, Greatest(ColumnLengths(t, i))}
          \cup {t.maxWidths[c] : c \in {i - 1} \cap DOMAIN t.maxWidths})

\* C22: calculateInitialColumnWidths sets columnWidths[i] to the least of 50,
\* the cap of column i if present, and the greatest visible length among
\* header i and the cells of column i; there is one width per header, so
\* cells beyond the last header do not contribute.
C22_InitialWidths ==
  last.op = "calculateInitialColumnWidths"
    => /\ Len(tables[1].columnWidths) = Len(tables[1].Headers)
       /\ \A i \in 1..Len(tables[1].Headers) :
            tables[1].columnWidths[i] = MeasuredWidth(tables[1], i)

\* a measured table with a row longer than its headers, a styled cell, and a
\* column its cap made narrower than its content
C22_Witness ==
  /\ last.op = "calculateInitialColumnWidths"
  /\ \E r \in 1..Len(tables[1].Rows) :
       /\ Len(tables[1].Rows[r]) > Len(tables[1].Headers)
       /\ stripANSI(tables[1].Rows[r][1]) # tables[1].Rows[r][1]
  /\ \E i \in 1..Len(tables[1].Headers) :
       /\ (i - 1) \in DOMAIN tables[1].maxWidths
       /\ tables[1].columnWidths[i] = tables[1].maxWidths[i - 1]
       /\ Greatest(ColumnLengths(tables[1], i)) > tables[1].maxWidths[i - 1]

\* ws is a state in which a shrink pass that started from pre stops for the
\* console width w: the table fits exactly, or it is still too wide and no
\* column is wider than 3; no column has grown, a column of width 3 or less
\* is untouched, and a column was reduced only while no other was wider
ShrunkFrom(pre, ws, w) ==
  /\ Len(ws) = Len(pre)
  /\ \/ TotalWidth(ws) = w
     \/ TotalWidth(ws) > w /\ \A i \in 1..Len(ws) : ws[i] <= 3
  /\ \A i \in 1..Len(ws) :
       /\ ws[i] <= pre[i]
       /\ pre[i] <= 3 => ws[i] = pre[i]
       /\ ws[i] < pre[i] => \A j \in 1..Len(ws) : ws[j] <= pre[i]

\* the widths the shrink pass of a Render of t starts from: freshly measured
\* for a table that is in no group, the stored ones for a member of a group
WidthsBeforeFit(t) ==
  IF t.group = 0 THEN calculateInitialColumnWidths(t).columnWidths ELSE t.columnWidths

\* t is drawn in styling mode from its own widths, and is too wide
TooWideStyled(t) ==
  /\ t.supportANSI
  /\ ~t.rowCountEnabled
  /\ TotalWidth(WidthsBeforeFit(t)) > t.consoleWidth

\* C23: when the total 1 + sum(width[i] + 3) exceeds consoleWidth, the shrink
\* pass of a Render in styling mode reduces the widest column wider than 3
\* again and again and leaves the widths where the total is consoleWidth or
\* every column is 3 or less; that state is the one the Render leaves behind.
C23_ShrinkStops ==
  [][\A id \in DOMAIN tables :
       (last'.op = "Render" /\ last'.id = id /\ TooWideStyled(tables[id]))
         => ShrunkFrom(WidthsBeforeFit(tables[id]), tables'[id].columnWidths,
                       tables[id].consoleWidth)]_vars

\* a table in no group that a Render in styling mode has drawn after
\* shrinking it to exactly its console width
C23_Witness ==
  /\ last.op = "Render"
  /\ out.st = "ok"
  /\ \E id \in DOMAIN tables :
       /\ last.id = id
       /\ tables[id].group = 0
       /\ TooWideStyled(tables[id])
       /\ TotalWidth(tables[id].columnWidths) = tables[id].consoleWidth
       /\ \E i \in 1..Len(tables[id].columnWidths) : tables[id].columnWidths[i] > 3

\* ---- SpecRerender: one table in no group, edited and rendered repeatedly

MaxRerenderOps == 4

RerenderCapInputs == {2, 5}

InitRerender ==
  /\ InitTables({1}, HeaderSets)
  /\ wrapIn = NoWrapIn
  /\ wrapOut = NoWrap

NextRerender ==
  \/ \E row \in RowInputs : DoAddRow(1, row, MaxRerenderOps)
  \/ \E col \in GroupColumnInputs, w \in RerenderCapInputs :
       DoSetMaxWidth(1, col, w, MaxRerenderOps)
  \/ \E w \in ConsoleWidthInputs : DoSetConsoleWidth(1, w, MaxRerenderOps)
  \/ DoRender(1, MaxRerenderOps)

SpecRerender == InitRerender /\ [][NextRerender]_vars

\* a fresh table for the same output stream, holding the content of t
FreshWith(t) ==
  [NewTable(t.Headers, minTerminalWidth, t.supportANSI) EXCEPT
     !.Rows = t.Rows,
     !.maxWidths = t.maxWidths,
     !.consoleWidth = t.consoleWidth,
     !.fillWidth = t.fillWidth]

\* the Render step of table 1 ends as Render ends on r
SameAsRenderOf(r) ==
  /\ tables'[1].columnWidths = r.t.columnWidths
  /\ out'.st = r.res.st
  /\ out'.text = r.res.text

\* C24: for a table in no group, a Render that follows any sequence of AddRow,
\* SetMaxWidth, SetConsoleWidth and Render calls leaves the widths and returns
\* the output of a single Render of a fresh table holding the same content:
\* the widths earlier renders left play no part.
C24_RenderRecomputes ==
  [][last'.op = "Render" => SameAsRenderOf(Render(FreshWith(tables[1])))]_vars

\* an earlier Render has returned, the table has been edited since, and the
\* widths that Render left are not the ones the content now asks for
C24_Witness ==
  /\ out.st = "ok"
  /\ last.op \in {"AddRow", "SetMaxWidth", "SetConsoleWidth"}
  /\ ops < MaxRerenderOps
  /\ tables[1].supportANSI
  /\ tables[1].columnWidths
       # calculateOptimalColumnWidths(tables[1], tables[1].consoleWidth).columnWidths

\* ---- SpecBorders: tables of two and three columns, their rows and
\* descriptions, and Render

MaxBorderOps == 5

txtEf == <<"e", "f">>

BorderHeaderSets == {<<txtA, txtName>>, <<txtA, txtName, txtTitle>>}
BorderRowInputs == {<<txtX>>, <<txtEf, txtX>>}
BorderBodyInputs == {txtWords, txtEf}
BorderRowIndexInputs == {0, 1}

InitBorders ==
  /\ InitTables({1}, BorderHeaderSets)
  /\ wrapIn = NoWrapIn
  /\ wrapOut = NoWrap

NextBorders ==
  \/ \E row \in BorderRowInputs : DoAddRow(1, row, MaxBorderOps)
  \/ \E ri \in BorderRowIndexInputs, body \in BorderBodyInputs :
       DoAddDescription(1, ri, body, MaxBorderOps)
  \/ DoRender(1, MaxBorderOps)

SpecBorders == InitBorders /\ [][NextBorders]_vars

\* the rendered lines without their escape sequences
PlainLines(text) ==
  LET plain(ls) == [k \in 1..Len(ls) |-> stripANSI(ls[k])]
  IN plain(OutLines(text))

\* what a line is, by its first glyph: the top border, a border that spans
\* the table from the left tee, the bottom border, a border inside a
\* description block (bar, empty first cell, left tee), or a line of content
Kind(v) ==
  IF v = <<>> THEN "empty"
  ELSE IF v[1] = TopLeft THEN "top"
  ELSE IF v[1] = LeftT THEN "mid"
  ELSE IF v[1] = BottomLeft THEN "bottom"
  ELSE IF v[1] = VLine /\ Contains(v, LeftT) THEN "descborder"
  ELSE "content"

\* the glyphs of a border line other than its horizontal runs, left to right
Junctions(v) == SelectSeq(v, LAMBDA c : c \notin {HLine, " "})

\* the junction glyphs of the border lines among the lines ls, top to bottom
BorderJunctions(ls) ==
  LET junctions(borders) == [k \in 1..Len(borders) |-> Junctions(borders[k])]
  IN junctions(SelectSeq(ls, LAMBDA v : Kind(v) \in {"top", "mid", "bottom", "descborder"}))

\* the number of descriptions of the row with 0-based index ri
DescCount(t, ri) == IF ri \in DOMAIN t.Descriptions THEN Len(t.Descriptions[ri]) ELSE 0

\* the borders the claim gives the row r (1-based) of a table of n columns:
\* those of its description blocks and the one that leads to the next row
RowBorders(t, r, n) ==
  LET d == DescCount(t, r - 1)
      opening == <<VLine, LeftT>> \o Repeat(BottomT, n - 2) \o <<RightT>>
      between == <<VLine, LeftT, RightT>>
      toNextRow == <<LeftT, Cross>> \o Repeat(TopT, n - 2) \o <<RightT>>
      closing == <<BottomLeft, BottomT, BottomRight>>
      rowToRow == <<LeftT>> \o Repeat(Cross, n - 1) \o <<RightT>>
  IN IF d > 0
     THEN <<opening>> \o Repeat(between, d - 1)
            \o <<IF r = Len(t.Rows) THEN closing ELSE toNextRow>>
     ELSE IF r < Len(t.Rows) THEN <<rowToRow>> ELSE <<>>

\* the borders below the header separator, without the plain bottom border
\* of a table whose last row has no description
BordersOfRows(t, js) ==
  IF DescCount(t, Len(t.Rows) - 1) > 0
  THEN SubSeq(js, 3, Len(js))
  ELSE SubSeq(js, 3, Len(js) - 1)

\* every glyph of a border line among the lines ls sits where the top border
\* has one
JunctionsAligned(ls) ==
  LET at(v) == {k \in 1..Len(v) : v[k] \notin {HLine, " "}}
      under(top) ==
        \A k \in 1..Len(ls) :
          Kind(ls[k]) \in {"mid", "bottom", "descborder"} => at(ls[k]) \subseteq top
  IN under(at(ls[1]))

\* C25: the junction glyphs of a border follow the blocks around it: the
\* full cross between two data rows when the upper has no description; the
\* bottom tee between the columns 2..N on the border that opens a row's first
\* description; no junction inside the merged region between two
\* descriptions of a row; the top tee between the columns 2..N on the border
\* from a description to the next row; and after a last row with a
\* description a bottom border whose one junction is the bottom tee at the
\* first column's boundary.  (A borderless table draws blanks for all glyphs.)
C25_JunctionGlyphs ==
  (last.op = "Render" /\ out.st = "ok" /\ ~tables[1].borderless)
    => LET follows(ls) ==
             /\ BordersOfRows(tables[1], BorderJunctions(ls))
                  = Concat([r \in 1..Len(tables[1].Rows) |->
                              RowBorders(tables[1], r, Len(tables[1].Headers))])
             /\ JunctionsAligned(ls)
       IN follows(PlainLines(out.text))

\* a rendered three-column table whose first row has two descriptions and is
\* followed by a second row
C25_Witness ==
  /\ last.op = "Render"
  /\ out.st = "ok"
  /\ Len(tables[1].Headers) = 3
  /\ Len(tables[1].Rows) = 2
  /\ DescCount(tables[1], 0) = 2

\* the kinds of the lines ls in order, a run of content lines counted once
Skeleton(ls) ==
  LET kept(ps) == [k \in 1..Len(ps) |-> ps[k][2]]
      runs(ks) ==
        kept(SelectSeq([k \in 1..Len(ks) |-> <<k, ks[k]>>],
                       LAMBDA p : ~(p[2] = "content" /\ p[1] > 1
                                      /\ ks[p[1] - 1] = "content")))
  IN runs([k \in 1..Len(ls) |-> Kind(ls[k])])

\* the order of emission for t: top border, header lines, header separator,
\* then per row its data lines, a border and lines per description, and one
\* border to the next row; the bottom border last
EmissionOrder(t) ==
  LET blocks(d) == Concat(Repeat(<<"descborder", "content">>, d))
      row(r) == <<"content">> \o blocks(DescCount(t, r - 1))
                  \o (IF r < Len(t.Rows) THEN <<"mid">> ELSE <<>>)
  IN <<"top", "content", "mid">> \o Concat([r \in 1..Len(t.Rows) |-> row(r)])
       \o <<"bottom">>

BorderGlyphs ==
  {TopLeft, TopRight, BottomLeft, BottomRight, HLine, VLine, LeftT, RightT, TopT,
   BottomT, Cross}

\* the bytes of a text that are neither glyphs nor blanks nor line ends
Payload(text) == SelectSeq(text, LAMBDA c : c \notin BorderGlyphs \cup Spaces)

\* the texts of t in the order of the claim: the headers, then row by row the
\* cells and the descriptions as they were added
PayloadOrder(t) ==
  LET descs(ri) == IF ri \in DOMAIN t.Descriptions THEN Concat(t.Descriptions[ri]) ELSE <<>>
      row(r) == Concat(t.Rows[r]) \o descs(r - 1)
  IN Payload(Concat(t.Headers) \o Concat([r \in 1..Len(t.Rows) |-> row(r)]))

\* C26: the lines of one Render come in the order top border, header lines,
\* header separator, then for each row in index order its data lines, its
\* description blocks in insertion order and one border, with the bottom
\* border last: one top border, first; one border between two consecutive
\* rows; one bottom border, last, with or without descriptions on the last
\* row.  (Stated for tables with borders whose cells fit their columns, so
\* that the texts appear in reading order.)
C26_EmissionOrder ==
  (last.op = "Render" /\ out.st = "ok" /\ ~tables[1].borderless)
    => LET ordered(ls) ==
             /\ Skeleton(ls) = EmissionOrder(tables[1])
             /\ Payload(Concat(ls)) = PayloadOrder(tables[1])
       IN ordered(PlainLines(out.text))

\* a rendered table of two rows, the first with two descriptions, the last
\* with one
C26_Witness ==
  /\ last.op = "Render"
  /\ out.st = "ok"
  /\ Len(tables[1].Rows) = 2
  /\ DescCount(tables[1], 0) = 2
  /\ Len(tables[1].Headers) = 2

\* the runes of s: each byte, a lead byte taking its continuation byte along
Runes(s) ==
  LET starts == {i \in 1..Len(s) : ~(i > 1 /\ s[i] = ContByte /\ s[i - 1] = LeadByte)}
      nth(k) == IF k > Cardinality(starts) THEN Len(s) + 1
                ELSE CHOOSE p \in starts : Cardinality({q \in starts : q < p}) = k - 1
  IN [k \in 1..Cardinality(starts) |-> SubSeq(s, nth(k), nth(k + 1) - 1)]

\* s cut into chunks of w runes, the last one holding what is left
RuneChunks(s, w) ==
  LET cut(rs) ==
        [j \in 1..((Len(rs) + w - 1) \div w) |->
           Concat(SubSeq(rs, (j - 1) * w + 1, Min(j * w, Len(rs))))]
  IN cut(Runes(s))

\* s is one word of plain characters: no whitespace, separator or escape byte
SingleWord(s) ==
  /\ s # <<>>
  /\ \A k \in 1..Len(s) : s[k] \notin Spaces \cup {",", "/", ".", ESC}

\* C27: a single word whose visible length exceeds w comes back from the
\* cell wrapper and from the description wrapper as consecutive chunks of
\* exactly w visible characters, the last chunk possibly shorter, also when
\* the word holds multi-byte characters.
C27_LongWordChunks ==
  (/\ wrapOut.fn \in {"smartSplitCellContent", "smartSplitByWords"}
   /\ wrapOut.st = "ok"
   /\ SingleWord(wrapIn.content)
   /\ VisibleLen(wrapIn.content) > wrapIn.maxWidth)
    => wrapOut.lines = RuneChunks(wrapIn.content, wrapIn.maxWidth)

\* ---- SpecInterior: the cell wrappers on texts with escape sequences at
\* any place

MaxInteriorLen == 3

txtReset == <<ESC, "[", "m">>

InteriorPieces == {<<"a">>, <<"b">>, <<" ">>, <<",">>, <<"/">>, txtReset}

\* the texts made of at most MaxInteriorLen pieces
InteriorTexts ==
  {Concat(ps) : ps \in UNION {[1..n -> InteriorPieces] : n \in 1..MaxInteriorLen}}

InitInterior ==
  /\ wrapIn \in [content : InteriorTexts, maxWidth : 1..MaxWrapWidth]
  /\ wrapOut = NoWrap
  /\ tables = <<>>
  /\ grp = NewGroup
  /\ synced = <<>>
  /\ out = NoOut
  /\ last = [op |-> "none", id |-> 0]
  /\ ops = 0

SpecInterior == InitInterior /\ [][NextWrap]_vars

\* the number of escape bytes in the lines ls
EscCount(ls) ==
  LET count(s) == Cardinality({k \in 1..Len(s) : s[k] = ESC})
  IN count(Concat(ls))

\* s holds escape sequences, and none that extractWrappingANSI peels off: s
\* is its own core
InteriorOnly(s) ==
  /\ extractWrappingANSI(s).core = s
  /\ stripANSI(s) # s

\* C28: escape sequences inside a cell text are left out of every width
\* comparison of the wrapper and kept in its output: the text is broken at
\* the visible positions where the same text without escape sequences is
\* broken, and no escape byte is lost or added.
C28_InteriorEscapes ==
  (/\ wrapOut.fn = "smartSplitCellContent"
   /\ wrapOut.st = "ok"
   /\ InteriorOnly(wrapIn.content))
    => LET same(plain) ==
             /\ plain.st = "ok"
             /\ [k \in 1..Len(wrapOut.lines) |-> stripANSI(wrapOut.lines[k])] = plain.lines
       IN /\ same(smartSplitCellContent(stripANSI(wrapIn.content), wrapIn.maxWidth))
          /\ EscCount(wrapOut.lines) = EscCount(<<wrapIn.content>>)

\* C29: every Render of a table built through the public operations comes to
\* an end: no wrapping loop runs forever, whatever the caps, the number of
\* columns, the descriptions, the group or the row counting.
C29_RenderTerminates == out.st # "diverge"

\* a call of SyncColumnWidths that ends as r leaves all widths as they are
KeepsWidths(r) ==
  /\ r.g.columnWidths = grp.columnWidths
  /\ \A id \in DOMAIN tables : r.T[id].columnWidths = tables[id].columnWidths

\* C30: SyncColumnWidths is idempotent: called again right after itself, it
\* leaves the group's and every member's columnWidths as the first call left
\* them; on a group without members it changes nothing.
C30_SyncIdempotent ==
  /\ last.op = "SyncColumnWidths" => KeepsWidths(SyncColumnWidths(grp, tables))
  /\ Len(grp.tables) = 0
       => SyncColumnWidths(grp, tables) = [g |-> grp, T |-> tables]

\* SyncColumnWidths has run on a group of two tables with different rows and
\* has shrunk a member below the group's widths
C30_Witness ==
  /\ last.op = "SyncColumnWidths"
  /\ Len(grp.tables) = 2
  /\ grp.tables[1] # grp.tables[2]
  /\ tables[1].Rows # tables[2].Rows
  /\ \E id \in DOMAIN tables : tables[id].columnWidths # grp.columnWidths

====
